---------------------------- MODULE Spec2Model ----------------------------
(***************************************************************************)
(* A model of the coecms utility library: the application of regridding    *)
(* weights (coecms/regrid.py), the SCRIP grid descriptor builders, the      *)
(* OASIS merge and the land-fraction correction operator                    *)
(* (coecms/um/um2oasis.py), the calls that run the external weight          *)
(* generators and the Regridder (coecms/regrid.py), the namelist diff       *)
(* (coecms/diffnml.py), the removal of degenerate axes                      *)
(* (coecms/dimension.py), the virtual aggregation of files                  *)
(* (coecms/bigdata.py), the ERA-Interim reader (coecms/datasets.py), the   *)
(* UM surface ancillary builder (coecms/um.py), the SCRIP conversion of a  *)
(* longitude-latitude grid (coecms/regrid/regrid.py, coecms/grid.py), the  *)
(* renaming of ESMF weights (coecms/um/um2oasis.py) and the vertical       *)
(* interpolation of UM files (coecms/um/vertical_interpolate.py).          *)
(* Each component has its own specification; the variables of the others    *)
(* rest at their idle values.                                               *)
(*                                                                         *)
(* Real numbers are modelled by integers.  Regridding weights are counted  *)
(* in units of 1/WeightUnit, so a weight of 1 is the integer WeightUnit and *)
(* a regridded value is the true value times WeightUnit.  Angles are        *)
(* counted in units of 7.5 degrees, so 90 degrees is the integer 12.        *)
(***************************************************************************)
EXTENDS Integers, Sequences, FiniteSets, TLC

VARIABLES
    weights,        \* apply_weights: the weights dataset
    source_data,    \* apply_weights: the source field, one (lat, lon) array per leading index
    regridded,      \* apply_weights: the returned field, <<>> before the call
    grid_in,        \* grid builders: the mask / land fraction DataArray given
    scrip,          \* latlon_scrip_grid: the descriptor returned
    scrip_grids,    \* um_endgame_scrip_grids: the descriptors returned, by grid name
    oasis_grids,    \* merge_scrip_for_oasis: the 'masks', 'grids' and 'areas' returned
    lfrac,          \* LFracCorrector: self.lfrac, the target land fraction, cell by cell
    field,          \* LFracCorrector: the source field (its lbuser4 code and its data)
    dest,           \* LFracCorrector: the data transform() returned, <<>> before the call
    pc,             \* weight generation: where the current call stands
    call,           \* weight generation: the arguments of the current call
    tmp_created,    \* weight generation: temporary files the current call has created
    tmp_open,       \* weight generation: temporary files that are open (they exist on disk)
    environ,        \* os.environ, the environment of this process
    environ_at_call,\* os.environ as it was when the current call began
    encoding,       \* the '_FillValue' encoding of the grids given: [source, target]
    invocations,    \* weight generation: how often the current call started the program
    proc,           \* the external program's exit status, stdout and stderr
    shown,          \* what the current call printed: the stream and the text
    result,         \* how the current call ended: returned weights, or raised
    nml_a,          \* diffnml: the first namelist, section -> key -> value
    nml_b,          \* diffnml: the second namelist
    nml_diff,       \* diffnml: the mapping returned
    coord,          \* remove_degenerate_axes: the coordinate given
    coord_out,      \* remove_degenerate_axes: the coordinate returned
    rg_args,        \* Regridder: the arguments of the constructor
    rg_self,        \* Regridder: how construction ended, and self.weights
    rg_generated,   \* Regridder: the calls of cdo_generate_weights made so far
    rg_identified,  \* Regridder: the calls of identify_grid made so far
    rg_applied,     \* Regridder: the weights handed to apply_weights, call by call
    path_series,    \* bigdata: the series given, in its order: <<index value, path>>
    layout,         \* bigdata: the variables every file of the series holds
    big_call,       \* bigdata: the function called, and its arguments
    big_result,     \* bigdata: what the call returned
    big_opened,     \* bigdata: the files opened so far, in order
    big_reads,      \* bigdata: the variable of the result that was computed, if any
    months,         \* open_erai_var: the months given, each the number of a month of 2000
    erai_var,       \* open_erai_var: how the call ended, and the variable returned
    erai_opened,    \* open_erai_var: the paths given to xarray.open_dataset so far
    erai_computed,  \* open_erai_var: whether the data of the variable was computed
    input_ds,       \* create_um_surface_ancillary: the times, latitudes and longitudes given
    stash_map,      \* create_um_surface_ancillary: the STASH codes of the variables given
    ancil,          \* create_um_surface_ancillary: the ancillary file returned
    lonlat,         \* latlon_to_scrip, LonLatGrid: the latitudes and longitudes given
    lonlat_scrip,   \* the SCRIP datasets latlon_to_scrip returned and to_scrip wrote
    esmf_ds,        \* rename_weights_esmf_to_scrip: the ESMF weights dataset given
    renamed,        \* rename_weights_esmf_to_scrip: the dataset returned
    vert_in,        \* vertical_interpolate: the fields of infile and the VERTLEVS namelist
    vert_out        \* vertical_interpolate: the fields written to outfile

regridVars == <<weights, source_data, regridded>>
gridVars == <<grid_in, scrip, scrip_grids, oasis_grids>>
lfracVars == <<lfrac, field, dest>>
genVars == <<pc, call, tmp_created, tmp_open, environ, environ_at_call, encoding,
             invocations, proc, shown, result>>
nmlVars == <<nml_a, nml_b, nml_diff>>
dimVars == <<coord, coord_out>>
ctorVars == <<rg_args, rg_self, rg_generated, rg_identified, rg_applied>>
bigVars == <<path_series, layout, big_call, big_result, big_opened, big_reads>>
eraiVars == <<months, erai_var, erai_opened, erai_computed>>
ancilVars == <<input_ds, stash_map, ancil>>
toScripVars == <<lonlat, lonlat_scrip>>
renameVars == <<esmf_ds, renamed>>
vertVars == <<vert_in, vert_out>>
moreVars == <<ancilVars, toScripVars, renameVars, vertVars>>
laterVars == <<nmlVars, dimVars, ctorVars, bigVars, eraiVars, moreVars>>
vars == <<regridVars, gridVars, lfracVars, genVars, laterVars>>

----------------------------------------------------------------------------
(* Bounds of the model *)

MaxLinks == 2       \* links (non-zero entries) in a weights file
WeightUnit == 2     \* weights are multiples of 1/WeightUnit
MaxLat == 3         \* latitudes of a grid given to the grid builders
MaxLon == 2         \* longitudes of a grid given to the grid builders
FracUnit == 2       \* land fractions are multiples of 1/FracUnit
MaxCells == 2       \* cells of a field given to LFracCorrector
MaxKeys == 2        \* keys a section of a namelist can hold
MaxAxis == 3        \* points along an axis of a coordinate array
MaxApplied == 3     \* calls of apply_weights one Regridder is followed through
MaxRun == 2         \* values of dim one file holds
MaxMonths == 3      \* months in the list given to open_erai_var
MaxTimes == 3       \* times of the dataset given to create_um_surface_ancillary
MaxColumns == 3     \* longitudes of a grid given to latlon_to_scrip and LonLatGrid
MaxLevels == 3      \* target levels in the eta array of the VERTLEVS namelist

----------------------------------------------------------------------------
(* Helpers *)

RECURSIVE SumSeq(_)
SumSeq(s) == IF s = <<>> THEN 0 ELSE Head(s) + SumSeq(Tail(s))

\* (a slip: the stacked axis runs over the columns first)
StackColumnMajor(arr, n_outer, n_inner) ==
    [p \in 0..(n_outer * n_inner - 1) |-> arr[p % n_outer][p \div n_outer]]

\* xarray's stack of two axes into one: the outer axis varies slowest, so the
\* element (i, j) lands at i * n_inner + j.
XStack(arr, n_outer, n_inner) ==
    [p \in 0..(n_outer * n_inner - 1) |-> arr[p \div n_inner][p % n_inner]]

----------------------------------------------------------------------------
(* apply_weights                                                           *)

\* A floating-point value: a number, or NaN (an invalid source value, or a
\* value that xarray's where() has blanked).
Num(x) == [nan |-> FALSE, v |-> x]
NaN == [nan |-> TRUE, v |-> 0]

\* The source grid of the model: SrcLat rows of SrcLon columns.
SrcLatIdx == 0..1
SrcLonIdx == 0..1
SrcNLat == Cardinality(SrcLatIdx)
SrcNLon == Cardinality(SrcLonIdx)
SrcSize == SrcNLat * SrcNLon

\* Source fields: a (lat, lon) array is a function of the row, then the column.
OnesField == [i \in SrcLatIdx |-> [j \in SrcLonIdx |-> Num(1)]]
RampField == [i \in SrcLatIdx |-> [j \in SrcLonIdx |-> Num(10 * (i + 1) + j + 1)]]
HoleField == [i \in SrcLatIdx |-> [j \in SrcLonIdx |->
                 IF i = 0 /\ j = 1 THEN NaN ELSE Num(10 * (i + 1) + j + 1)]]

\* The source data of the model, one (lat, lon) array per leading index
SourceInputs == { <<OnesField, OnesField>>, <<HoleField, RampField>> }

\* DataArray.stack(latlon=('lat', 'lon')): the last axis runs over the rows,
\* each row over its columns (C order), 0-based.
Stack(arr) == XStack(arr, SrcNLat, SrcNLon)

\* dask.array.ma.fix_invalid flags the invalid values; the masked product
\* counts a flagged value as contributing nothing.
IsValid(x) == ~x.nan
Filled(x) == IF IsValid(x) THEN x.v ELSE 0

\* The fields apply_weights reads from the weights dataset, by its style.
\* Addresses are moved from the file's 1-based to 0-based.
ShiftAddress(a) == [k \in 1..Len(a) |-> a[k] - 1]

\* (a slip: the row taken as the source address and the column as the destination)
ESMFViewSwapped(w) ==
    [ src_address |-> ShiftAddress(w.row),
      dst_address |-> ShiftAddress(w.col),
      remap_matrix |-> w.S,
      w_shape |-> <<w.n_a, w.n_b>>,
      dst_mask |-> w.mask_b ]

ESMFView(w) ==
    [ src_address |-> ShiftAddress(w.col),
      dst_address |-> ShiftAddress(w.row),
      remap_matrix |-> w.S,
      w_shape |-> <<w.n_a, w.n_b>>,
      dst_mask |-> w.mask_b ]

CDOView(w) ==
    [ src_address |-> ShiftAddress(w.src_address),
      dst_address |-> ShiftAddress(w.dst_address),
      remap_matrix |-> [k \in 1..Len(w.remap_matrix) |-> w.remap_matrix[k][1]],
      w_shape |-> <<w.src_grid_size, w.dst_grid_size>>,
      dst_mask |-> w.dst_grid_imask ]

WeightsView(w) == IF w.title = "ESMF" THEN ESMFView(w) ELSE CDOView(w)

\* (a slip: a repeated coordinate pair overwrites the entry instead of adding to it)
SparseCOOLastWins(v) ==
    [s \in 0..(v.w_shape[1] - 1) |-> [d \in 0..(v.w_shape[2] - 1) |->
        LET hits == {k \in 1..Len(v.remap_matrix) :
                        v.src_address[k] = s /\ v.dst_address[k] = d}
        IN  IF hits = {} THEN 0
            ELSE v.remap_matrix[CHOOSE k \in hits : \A h \in hits : h <= k]]]

\* sparse.COO(coords, data, shape): the entry at (s, d) is the sum of the data
\* of every coordinate pair equal to (s, d); pairs that repeat add up.
SparseCOO(v) ==
    [s \in 0..(v.w_shape[1] - 1) |-> [d \in 0..(v.w_shape[2] - 1) |->
        SumSeq([k \in 1..Len(v.remap_matrix) |->
                  IF v.src_address[k] = s /\ v.dst_address[k] = d
                  THEN v.remap_matrix[k] ELSE 0])]]

\* tensordot(stacked_source_masked, weight_matrix, axes=1) for one leading index
Tensordot(flat, matrix, shape) ==
    [d \in 0..(shape[2] - 1) |->
        SumSeq([s1 \in 1..shape[1] |-> Filled(flat[s1 - 1]) * matrix[s1 - 1][d]])]

\* out.where(dst_mask == 1), the mask broadcast over the leading indices
WhereMask(data, dst_mask) ==
    [d \in DOMAIN data |-> IF dst_mask[d + 1] = 1 THEN Num(data[d]) ELSE NaN]

apply_weights(src, w) ==
    LET v == WeightsView(w)
        matrix == SparseCOO(v)
    IN  [t \in 1..Len(src) |->
            WhereMask(Tensordot(Stack(src[t]), matrix, v.w_shape), v.dst_mask)]

\* The weights files of the model: every list of up to MaxLinks links between
\* the source cells and the destination cells, in either style.
DstSizes == {1, 2}
LinkSet(nd) == (1..SrcSize) \X (1..nd) \X (0..WeightUnit)

ESMFWeights(links, mask) ==
    [ title |-> "ESMF",
      col |-> [k \in 1..Len(links) |-> links[k][1]],
      row |-> [k \in 1..Len(links) |-> links[k][2]],
      S |-> [k \in 1..Len(links) |-> links[k][3]],
      n_a |-> SrcSize, n_b |-> Len(mask), mask_b |-> mask ]

CDOWeights(links, mask) ==
    [ title |-> "CDO",
      src_address |-> [k \in 1..Len(links) |-> links[k][1]],
      dst_address |-> [k \in 1..Len(links) |-> links[k][2]],
      remap_matrix |-> [k \in 1..Len(links) |-> <<links[k][3]>>],
      src_grid_size |-> SrcSize, dst_grid_size |-> Len(mask), dst_grid_imask |-> mask ]

----------------------------------------------------------------------------
(* latlon_scrip_grid and um_endgame_scrip_grids                            *)
(*                                                                         *)
(* Angles are integers in units of 7.5 degrees.  The coordinates given are *)
(* multiples of 30 degrees, so every half spacing the code takes is exact. *)

Pole == 12      \* 90 degrees

\* (a slip: the division by two left out)
NotHalved(x) == x

\* x / 2, for the even x the code halves
Half(x) == x \div 2

\* numpy.clip(x, lo, hi)
Clip(x, lo, hi) == IF x < lo THEN lo ELSE IF x > hi THEN hi ELSE x

\* numpy.logical_not on numbers, held as SCRIP holds a mask (0 or 1)
LogicalNot(x) == IF x = 0 THEN 1 ELSE 0

\* 1000 * sin of an angle between -90 and 90 degrees
SinTable == <<0, 131, 259, 383, 500, 609, 707, 793, 866, 924, 966, 991, 1000>>
Sin(a) == IF a >= 0 THEN SinTable[a + 1] ELSE 0 - SinTable[1 - a]

\* A descriptor that was not produced: before the call, or the call raised.
NoScrip(status) ==
    [ status |-> status, coords |-> {}, grid_dims |-> <<>>, grid_size |-> 0,
      grid_center_lat |-> <<>>, grid_center_lon |-> <<>>,
      grid_corner_lat |-> <<>>, grid_corner_lon |-> <<>>,
      grid_imask |-> <<>>, grid_area |-> <<>> ]

\* (a slip: the longitude corners offset by half the latitude spacing)
CornerLonWrongSpacing(lo, dlat, dlon) == <<lo - Half(dlat), lo + Half(dlat), lo + Half(dlat), lo - Half(dlat)>>

\* The four corners of a cell, from the bottom left, anticlockwise
CornerLon(lo, dlat, dlon) == <<lo - Half(dlon), lo + Half(dlon), lo + Half(dlon), lo - Half(dlon)>>
\* (a slip: the corner latitudes extrapolated past the pole, not clamped)
CornerLatUnclipped(la, dlat) ==
    <<la - Half(dlat), la - Half(dlat), la + Half(dlat), la + Half(dlat)>>

CornerLat(la, dlat) ==
    LET raw == <<la - Half(dlat), la - Half(dlat), la + Half(dlat), la + Half(dlat)>>
    IN  [c \in 1..4 |-> Clip(raw[c], 0 - Pole, Pole)]

\* The cell area, in units of planet_radius^2 * (pi / 24) / 1000
CellArea(la, dlat, dlon) ==
    LET la_low == Clip(la - Half(dlat), 0 - Pole, Pole)
        la_high == Clip(la + Half(dlat), 0 - Pole, Pole)
    IN  dlon * (Sin(la_high) - Sin(la_low))

\* latlon_scrip_grid(mask): mask.lat[1] and mask.lon[1] raise IndexError on
\* an axis of a single point.
latlon_scrip_grid(mask) ==
    IF mask.nlat < 2 \/ mask.nlon < 2 THEN NoScrip("IndexError")
    ELSE
    LET ny == mask.nlat
        nx == mask.nlon
        rows == 0..(ny - 1)
        cols == 0..(nx - 1)
        dlat == mask.lat[1] - mask.lat[0]
        dlon == mask.lon[1] - mask.lon[0]
        \* numpy.meshgrid(mask.lon, mask.lat)
        lo == [i \in rows |-> [j \in cols |-> mask.lon[j]]]
        la == [i \in rows |-> [j \in cols |-> mask.lat[i]]]
        imask == [i \in rows |-> [j \in cols |-> LogicalNot(mask.data[i][j])]]
        clo == [i \in rows |-> [j \in cols |-> CornerLon(lo[i][j], dlat, dlon)]]
        cla == [i \in rows |-> [j \in cols |-> CornerLat(la[i][j], dlat)]]
        area == [i \in rows |-> [j \in cols |-> CellArea(la[i][j], dlat, dlon)]]
    IN  [ status |-> "ok",
          \* stack(grid_size=('ny','nx')).reset_index('grid_size') leaves the
          \* two levels as the coordinates of the descriptor
          coords |-> {"ny", "nx"},
          grid_dims |-> <<nx, ny>>,           \* reversed(mask.shape)
          grid_size |-> ny * nx,
          grid_center_lat |-> XStack(la, ny, nx),
          grid_center_lon |-> XStack(lo, ny, nx),
          grid_corner_lat |-> XStack(cla, ny, nx),
          grid_corner_lon |-> XStack(clo, ny, nx),
          grid_imask |-> XStack(imask, ny, nx),
          grid_area |-> XStack(area, ny, nx) ]

\* um_endgame_scrip_grids(frac_t)
NoGrids(status) ==
    [um_t |-> NoScrip(status), um_u |-> NoScrip(status), um_v |-> NoScrip(status)]

um_endgame_scrip_grids(frac_t) ==
    IF frac_t.nlat < 2 \/ frac_t.nlon < 2 THEN NoGrids("IndexError")
    ELSE
    LET ny == frac_t.nlat
        nx == frac_t.nlon
        \* xarray.where(frac_t < 1.0, 0, 1)
        mask_t == [frac_t EXCEPT !.data =
                      [i \in 0..(ny - 1) |-> [j \in 0..(nx - 1) |->
                          IF frac_t.data[i][j] < FracUnit THEN 0 ELSE 1]]]
        dlat == mask_t.lat[1] - mask_t.lat[0]
        dlon == mask_t.lon[1] - mask_t.lon[0]
        lat_v == [i \in 0..ny |->
                    Clip(IF i < ny THEN mask_t.lat[i] - Half(dlat)
                                   ELSE mask_t.lat[ny - 1] + Half(dlat), 0 - Pole, Pole)]
        lon_u == [j \in 0..(nx - 1) |-> mask_t.lon[j] - Half(dlon)]
        mask_v == [ nlat |-> ny + 1, nlon |-> nx, lat |-> lat_v, lon |-> mask_t.lon,
                    data |-> [i \in 0..ny |-> [j \in 0..(nx - 1) |-> 0]] ]
        mask_u == [ nlat |-> ny, nlon |-> nx, lat |-> mask_t.lat, lon |-> lon_u,
                    data |-> [i \in 0..(ny - 1) |-> [j \in 0..(nx - 1) |-> 0]] ]
    IN  [ um_t |-> latlon_scrip_grid(mask_t),
          um_u |-> latlon_scrip_grid(mask_u),
          um_v |-> latlon_scrip_grid(mask_v) ]

\* merge_scrip_for_oasis: what the loop body does to the descriptor it is
\* handed, before it rebinds the name to the unstacked copy: del scrip['nx'],
\* del scrip['ny'], del scrip['grid_corners'] where present, and
\* scrip['grid_size'] = MultiIndex(...).  These act on the caller's dataset.
MergeInPlace(ds) ==
    [ds EXCEPT !.coords = (@ \ {"nx", "ny", "grid_corners"}) \cup {"grid_size"}]

\* unstack('grid_size') with the index from_product([range(grid_dims[1]),
\* range(grid_dims[0])]): the flat position p is the cell (p div nx, p mod nx)
Unstack(flat, ds) ==
    [i \in 0..(ds.grid_dims[2] - 1) |-> [j \in 0..(ds.grid_dims[1] - 1) |->
        flat[i * ds.grid_dims[1] + j]]]

\* transpose('grid_rank', 'grid_corners', 'ny', 'nx') of a corner variable
CornersFirst(flat, ds) ==
    [c \in 1..4 |-> Unstack([p \in DOMAIN flat |-> flat[p][c]], ds)]

\* (a slip: the SCRIP mask passed on as it is)
OasisMaskNotInverted(ds) ==
    Unstack([p \in DOMAIN ds.grid_imask |-> ds.grid_imask[p]], ds)

\* masks[name.msk] = (1 - scrip[name.grid_imask]).astype('i4')
OasisMask(ds) ==
    Unstack([p \in DOMAIN ds.grid_imask |-> 1 - ds.grid_imask[p]], ds)

NoOasis == [status |-> "none", masks |-> <<>>, grids |-> <<>>, areas |-> <<>>]

\* merge_scrip_for_oasis(scrip_grids): the dict it returns
merge_scrip_for_oasis(grids) ==
    [ status |-> "ok",
      masks |-> [name \in DOMAIN grids |-> OasisMask(grids[name])],
      grids |-> [name \in DOMAIN grids |->
                   [ lon |-> Unstack(grids[name].grid_center_lon, grids[name]),
                     lat |-> Unstack(grids[name].grid_center_lat, grids[name]),
                     clo |-> CornersFirst(grids[name].grid_corner_lon, grids[name]),
                     cla |-> CornersFirst(grids[name].grid_corner_lat, grids[name]) ]],
      areas |-> [name \in DOMAIN grids |-> Unstack(grids[name].grid_area, grids[name])] ]

\* The grids of the model: latitudes strictly increasing or strictly
\* decreasing, longitudes strictly increasing, regular or not.
LatValues == {0 - 12, 0 - 8, 0 - 4, 0, 4, 8, 12}
LonValues == {0, 4, 8, 12}
Increasing(f, n) == \A i \in 0..(n - 2) : f[i] < f[i + 1]
Decreasing(f, n) == \A i \in 0..(n - 2) : f[i] > f[i + 1]

\* The land fractions of the model: the same in every cell, or land in one cell only.
FracFields(ny, nx) ==
    LET cells == (0..(ny - 1)) \X (0..(nx - 1))
    IN  { [i \in 0..(ny - 1) |-> [j \in 0..(nx - 1) |-> f]] : f \in {0, 1, FracUnit} }
        \cup { [i \in 0..(ny - 1) |-> [j \in 0..(nx - 1) |->
                   IF <<i, j>> = c THEN FracUnit ELSE 0]] : c \in cells }

----------------------------------------------------------------------------
(* LFracCorrector                                                          *)
(*                                                                         *)
(* Field values and land fractions are integers in units of 1/FracUnit,    *)
(* except the missing-data sentinel, which stands for itself: it is far    *)
(* from every other value of the model in either unit.                     *)

LandMaskCode == 30
OrographyCode == 33
LandFracCode == 505
MissingData == -1073741824

Real(x) == x * FracUnit

\* (a slip: only cells that are entirely land count as land)
LandMaskFullCellsOnly(l) == IF l >= Real(1) THEN Real(1) ELSE 0

\* numpy.where(self.lfrac > 0, 1, 0), in one cell
LandMask(l) == IF l > 0 THEN Real(1) ELSE 0

\* (a slip: negative values floored whether or not there is land)
OrographyFloorEverywhere(d, l) == IF d < 0 THEN Real(1) ELSE d

\* numpy.where(numpy.logical_and(data < 0, self.lfrac > 0), 1, data), in one cell
Orography(d, l) == IF d < 0 /\ l > 0 THEN Real(1) ELSE d

\* (a slip: the last step left out)
UnmaskNever(d, l) == d

\* (a slip: missing data zeroed whether or not there is land)
UnmaskEverywhere(d, l) == IF d = MissingData THEN 0 ELSE d

\* numpy.where(numpy.logical_and(data == -1073741824, self.lfrac > 0), 0, data)
Unmask(d, l) == IF d = MissingData /\ l > 0 THEN 0 ELSE d

\* LFracCorrector.transform(source, dest)
transform(source, lf) ==
    LET data0 == source.data
        data1 == IF source.lbuser4 = LandMaskCode
                 THEN [c \in DOMAIN data0 |-> LandMask(lf[c])] ELSE data0
        data2 == IF source.lbuser4 = OrographyCode
                 THEN [c \in DOMAIN data1 |-> Orography(data1[c], lf[c])] ELSE data1
        data3 == IF source.lbuser4 = LandFracCode THEN lf ELSE data2
    IN  [c \in DOMAIN data3 |-> Unmask(data3[c], lf[c])]

\* The fields of the model
FieldCodes == {LandMaskCode, OrographyCode, LandFracCode, 24}
DataValues == {MissingData, Real(0 - 1), 0, Real(1), Real(5)}
FracValues == (0..FracUnit) \cup {MissingData}

----------------------------------------------------------------------------
(* cdo_generate_weights and esmf_generate_weights                          *)

supported_methods == {"bic", "bil", "con", "con2", "dis", "laf", "nn", "ycon"}
supported_norms == {"fracarea", "destarea"}
TempFiles == {"source_grid_file", "target_grid_file", "weight_file"}
EnvNames == {"REMAP_EXTRAPOLATE", "CDO_REMAP_NORM", "REMAP_AREA_MIN"}

NoCall == [tool |-> "none", method |-> "", remap_norm |-> "", extrapolate |-> TRUE,
           remap_area_min |-> 0, source_encoding |-> "unset", target_encoding |-> "unset"]
NoProc == [status |-> 0, stdout |-> "", stderr |-> ""]
NoResult == [kind |-> "none", exc |-> ""]
Raised(exc) == [kind |-> "raised", exc |-> exc]

\* '%f' % remap_area_min
FormatF(x) == IF x = 0 THEN "0.000000" ELSE "1.000000"

\* (a slip: only the method is checked)
ValidArgsMethodOnly(c) == c.method \in supported_methods

\* The two checks that open cdo_generate_weights
ValidArgs(c) == c.method \in supported_methods /\ c.remap_norm \in supported_norms

\* The calls of the model.  For ESMF remap_norm stands for norm_type; the
\* arguments that only CDO takes stay at their defaults.
MethodInputs == {"bil", "con", "conserve"}
NormInputs == {"fracarea", "destarea", "dstarea"}
EncodingInputs == {"unset", "caller"}
CallInputs ==
    { [tool |-> "cdo", method |-> m, remap_norm |-> n, extrapolate |-> e,
       remap_area_min |-> a, source_encoding |-> se, target_encoding |-> te] :
         m \in MethodInputs, n \in NormInputs, e \in BOOLEAN, a \in {0, 1},
         se \in EncodingInputs, te \in EncodingInputs }
    \cup
    { [tool |-> "esmf", method |-> m, remap_norm |-> n, extrapolate |-> TRUE,
       remap_area_min |-> 0, source_encoding |-> se, target_encoding |-> te] :
         m \in MethodInputs, n \in NormInputs,
         se \in EncodingInputs, te \in EncodingInputs }

\* What the external program can do: its exit status and what it wrote
ProcOutcomes ==
    { [status |-> st, stdout |-> o, stderr |-> e] :
        st \in {0, 1}, o \in {"", "progress text"}, e \in {"", "error text"} }

----------------------------------------------------------------------------
(* diffnml                                                                 *)
(*                                                                         *)
(* A namelist is a function from the sections it holds to their bodies, a  *)
(* body a function from the keys it holds to their values.  A value is     *)
(* written as a string; "None" is Python's None, which is what f90nml      *)
(* gives a key written without a value.                                    *)

NmlSections == {"foo", "qux"}
KeyNames == <<"bar", "baz", "bat", "bay">>
NmlKeys == {KeyNames[i] : i \in 1..MaxKeys}
NmlValues == {"None", "1", "a"}

\* The namelists of the model: any of the sections, "foo" with any of the
\* keys and "qux" with at most the key "bar", each key with any value.
KeysOf(sec) == IF sec = "foo" THEN NmlKeys ELSE {"bar"}
Bodies(sec) == UNION { [K -> NmlValues] : K \in SUBSET KeysOf(sec) }
Namelists ==
    UNION { { n \in [S -> UNION { Bodies(sec) : sec \in S }] :
                \A sec \in S : n[sec] \in Bodies(sec) } : S \in SUBSET NmlSections }

\* a.get(g, {})
GetGroup(n, g) == IF g \in DOMAIN n THEN n[g] ELSE <<>>

\* a_g.get(k, None)
GetKey(body, k) == IF k \in DOMAIN body THEN body[k] ELSE "None"

NoDiff == [called |-> FALSE, output |-> <<>>]

\* diffnml(a, b)
diffnml(a, b) ==
    LET groups == DOMAIN a \cup DOMAIN b
        keys(g) == DOMAIN GetGroup(a, g) \cup DOMAIN GetGroup(b, g)
        a_k(g, k) == GetKey(GetGroup(a, g), k)
        b_k(g, k) == GetKey(GetGroup(b, g), k)
        differing == UNION { { <<g, k>> : k \in {k \in keys(g) : a_k(g, k) # b_k(g, k)} } :
                             g \in groups }
    IN  [called |-> TRUE,
         output |-> [q \in differing |-> <<a_k(q[1], q[2]), b_k(q[1], q[2])>>]]

IdleNml == nml_a = <<>> /\ nml_b = <<>> /\ nml_diff = NoDiff

----------------------------------------------------------------------------
(* remove_degenerate_axes                                                  *)
(*                                                                         *)
(* A DataArray is its dims in order, the size of each, and its data: a     *)
(* function of the index, an index giving each dim a position from 0.      *)

DimSet(c) == {c.dims[n] : n \in 1..Len(c.dims)}
IndexesOver(D, sizes) ==
    {ix \in [D -> 0..(MaxAxis - 1)] : \A d \in D : ix[d] < sizes[d]}
Indexes(c) == IndexesOver(DimSet(c), c.sizes)

\* The index ix with dim d put at position k
Extend(ix, d, k) == [e \in DOMAIN ix \cup {d} |-> IF e = d THEN k ELSE ix[e]]

RECURSIVE WithoutDim(_, _)
WithoutDim(dims, d) ==
    IF dims = <<>> THEN <<>>
    ELSE IF Head(dims) = d THEN WithoutDim(Tail(dims), d)
    ELSE <<Head(dims)>> \o WithoutDim(Tail(dims), d)

\* The sizes and the positions left when dim d of the array c is reduced
RestSizes(c, d) == [e \in DimSet(c) \ {d} |-> c.sizes[e]]
RestIndexes(c, d) == IndexesOver(DimSet(c) \ {d}, RestSizes(c, d))

\* coord.isel({d: 0})
IselFirst(c, d) ==
    [dims |-> WithoutDim(c.dims, d), sizes |-> RestSizes(c, d),
     data |-> [ix \in RestIndexes(c, d) |-> c.data[Extend(ix, d, 0)]]]

\* The sum along d, which is n times coord.mean(dim=d) for the n points of d
SumAlong(c, d) ==
    [dims |-> WithoutDim(c.dims, d), sizes |-> RestSizes(c, d),
     data |-> [ix \in RestIndexes(c, d) |->
                  SumSeq([k \in 1..c.sizes[d] |-> c.data[Extend(ix, d, k - 1)]])]]

\* (coord.isel({d:0}) == coord.mean(dim=d)).all()
FirstEqualsMean(c, d) ==
    \A ix \in DOMAIN IselFirst(c, d).data :
        c.sizes[d] * IselFirst(c, d).data[ix] = SumAlong(c, d).data[ix]

\* coord.mean(dim=d), which the code takes only where the mean is the first
\* value along d, a value of the array: the division is exact
Mean(c, d) ==
    [dims |-> WithoutDim(c.dims, d), sizes |-> RestSizes(c, d),
     data |-> [ix \in RestIndexes(c, d) |-> SumAlong(c, d).data[ix] \div c.sizes[d]]]

\* The loop of remove_degenerate_axes over the dims the coordinate came with
RECURSIVE RemoveLoop(_, _)
RemoveLoop(c, dims) ==
    IF dims = <<>> THEN c
    ELSE RemoveLoop(IF FirstEqualsMean(c, Head(dims)) THEN Mean(c, Head(dims)) ELSE c,
                    Tail(dims))

remove_degenerate_axes(c) == RemoveLoop(c, c.dims)

\* The coordinates of the model: values 1 to 3 along 'i' alone, or over
\* ('i', 'j') with up to two points along 'i'
CoordValues == {1, 2, 3}
NoCoord == [dims |-> <<>>, sizes |-> <<>>, data |-> <<>>]
NoCoordOut == [called |-> FALSE, array |-> NoCoord]
Array1D(n, values) ==
    [dims |-> <<"i">>, sizes |-> [e \in {"i"} |-> n],
     data |-> [ix \in IndexesOver({"i"}, [e \in {"i"} |-> n]) |-> values[ix["i"] + 1]]]
Array2D(ni, nj, values) ==
    LET sizes == [e \in {"i", "j"} |-> IF e = "i" THEN ni ELSE nj]
    IN  [dims |-> <<"i", "j">>, sizes |-> sizes,
         data |-> [ix \in IndexesOver({"i", "j"}, sizes) |->
                      values[ix["i"] * nj + ix["j"] + 1]]]

IdleDim == coord = NoCoord /\ coord_out = NoCoordOut

----------------------------------------------------------------------------
(* Regridder                                                               *)

\* What a grid argument can be: None, a Grid, a dataset whose lat and lon
\* are 1-D, or a dataset identify_grid does not know (2-D coordinates)
GridArgs == {"None", "Grid", "latlon", "curvilinear"}
\* What the weights argument can be: None, or a weights dataset
WeightsArgs == {"None", "weights_1", "weights_2"}

NoRegridder == [state |-> "none", exc |-> "", weights |-> "None"]
NoArgs == [source_grid |-> "None", target_grid |-> "None", weights |-> "None"]

\* (source_grid is None or target_grid is None) and weights is None
NothingToUse(a) ==
    (a.source_grid = "None" \/ a.target_grid = "None") /\ a.weights = "None"

\* (a slip: weights are generated whenever both grids are given)
GeneratesWhenGridsGiven(a) == a.source_grid # "None" /\ a.target_grid # "None"

\* The else branch of 'if weights is not None'
Generates(a) == a.weights = "None"

\* identify_grid(dataset) returns a Grid, or raises NotImplementedError
Identifiable(g) == g \in {"Grid", "latlon"}

\* The variables of the source_data given to Regridder.regrid: a DataArray
\* is handed to apply_weights itself, a Dataset variable by variable
SourceKinds == {"DataArray", "Dataset"}
VariablesOf(kind) == IF kind = "DataArray" THEN 1 ELSE 2

----------------------------------------------------------------------------
(* bigdata: unsafe_mfdataset and virtual_dataset                           *)
(*                                                                         *)
(* A lazily loaded array is its shape and its parts in order along dim.  A *)
(* part is n values along dim that are held in memory ("memory", with the  *)
(* values), read through the open mold dataset ("mold"), or read from the  *)
(* file at path through delayed_open when the array is computed           *)
(* ("delayed").                                                            *)

\* The paths of the model, in lexical order: the position is the rank
Paths == <<"f_10.nc", "f_8.nc", "f_9.nc">>
PathSet == {Paths[r] : r \in DOMAIN Paths}
PathRank(path) == CHOOSE r \in DOMAIN Paths : Paths[r] = path

\* The points along 'x' of every file
XSize == 3

\* dims.index(dim)
DimAxis(dims, d) ==
    CHOOSE n \in 1..Len(dims) : dims[n] = d /\ \A k \in 1..(n - 1) : dims[k] # d
HasDim(dims, d) == \E n \in 1..Len(dims) : dims[n] = d

\* The variables of a file that holds n values of 'time': their dims and shape
FileVariables(lay, n) ==
    [v \in {"a", "x"} \cup (IF lay.time_variable THEN {"time"} ELSE {}) |->
        IF v = "a" THEN [dims |-> lay.dims,
                         shape |-> [k \in 1..2 |-> IF lay.dims[k] = "time" THEN n ELSE XSize]]
        ELSE IF v = "x" THEN [dims |-> <<"x">>, shape |-> <<XSize>>]
        ELSE [dims |-> <<"time">>, shape |-> <<n>>]]

Layouts ==
    [dims : {<<"time", "x">>, <<"x", "time">>}, time_variable : BOOLEAN]

\* (a slip: the file is opened when the virtual dataset is built)
delayed_open_eager(path) == <<path>>

\* delayed_open(path) is dask.delayed: calling it opens nothing
delayed_open(path) == <<>>

MemoryPart(values) == [kind |-> "memory", path |-> "", n |-> Len(values), values |-> values]
DelayedPart(path, n) == [kind |-> "delayed", path |-> path, n |-> n, values |-> <<>>]
MoldPart(path, n) == [kind |-> "mold", path |-> path, n |-> n, values |-> <<>>]

NoBigResult == [status |-> "none", data |-> <<>>, opened |-> <<>>]

\* (a slip: the size along dim is written to the first axis, wherever dim sits)
ShapeFirstAxis(shape, dims, d, n) == [k \in 1..Len(shape) |-> IF k = 1 THEN n ELSE shape[k]]

\* shape[concat_axis] = dim_values.size
ShapeWith(shape, dims, d, n) ==
    [k \in 1..Len(shape) |-> IF k = DimAxis(dims, d) THEN n ELSE shape[k]]

\* virtual_dataset(path, aggregate_vars, mold_ds, dim, dim_values): the dict
\* returned, and the files opened on the way.  dims.index(dim) raises
\* ValueError for a variable without dim.
virtual_dataset(path, aggregate_vars, mold_ds, d, dim_values) ==
    IF \E v \in aggregate_vars : v # d /\ ~HasDim(mold_ds[v].dims, d)
    THEN [status |-> "ValueError", data |-> <<>>, opened |-> delayed_open(path)]
    ELSE [status |-> "ok",
          data |-> [v \in aggregate_vars |->
                      IF v = d
                      THEN [shape |-> <<Len(dim_values)>>, parts |-> <<MemoryPart(dim_values)>>]
                      ELSE [shape |-> ShapeWith(mold_ds[v].shape, mold_ds[v].dims, d,
                                                Len(dim_values)),
                            parts |-> <<DelayedPart(path, Len(dim_values))>>]],
          opened |-> delayed_open(path)]

RECURSIVE Flatten(_)
Flatten(seqs) == IF seqs = <<>> THEN <<>> ELSE Head(seqs) \o Flatten(Tail(seqs))

\* path_series.groupby(path_series).groups: the paths of the series, which
\* groupby sorts, and for each path the index values of its entries
GroupPaths(series) ==
    SelectSeq(Paths, LAMBDA path : \E k \in 1..Len(series) : series[k][2] = path)
GroupDates(series, path) ==
    LET entries == SelectSeq(series, LAMBDA entry : entry[2] = path)
    IN  [k \in 1..Len(entries) |-> entries[k][1]]

\* unsafe_mfdataset(path_series, dim): the dataset returned, variable by
\* variable, and the files opened on the way
unsafe_mfdataset(series, d, lay) ==
    LET paths == GroupPaths(series)
        \* mold_ds = xarray.open_dataset(paths[0])
        mold_ds == FileVariables(lay, Len(GroupDates(series, paths[1])))
        aggregate_vars == {v \in DOMAIN mold_ds : HasDim(mold_ds[v].dims, d)}
        delayed_data == [g \in 1..Len(paths) |->
                            virtual_dataset(paths[g], aggregate_vars, mold_ds, d,
                                            GroupDates(series, paths[g]))]
        \* dask.array.concatenate([d[v] for d in delayed_data], axis=concat_axis)
        parts(v) == Flatten([g \in 1..Len(paths) |-> delayed_data[g].data[v].parts])
        total(v) == SumSeq([g \in 1..Len(paths) |->
                       delayed_data[g].data[v].shape[DimAxis(mold_ds[v].dims, d)]])
    IN  [status |-> "ok",
         data |-> [v \in DOMAIN mold_ds |->
                     IF v \in aggregate_vars
                     THEN [dims |-> mold_ds[v].dims,
                           shape |-> ShapeWith(mold_ds[v].shape, mold_ds[v].dims, d, total(v)),
                           parts |-> parts(v)]
                     ELSE [dims |-> mold_ds[v].dims, shape |-> mold_ds[v].shape,
                           parts |-> <<MoldPart(paths[1], mold_ds[v].shape[1])>>]],
         opened |-> <<paths[1]>> \o Flatten([g \in 1..Len(paths) |-> delayed_data[g].opened])]

\* Computing a lazily loaded array runs delayed_open for each of its delayed parts
ComputeOpens(entry) ==
    LET lazy == SelectSeq(entry.parts, LAMBDA part : part.kind = "delayed")
    IN  [k \in 1..Len(lazy) |-> lazy[k].path]

\* The series of the model: distinct paths in any order, each with a run of
\* index values, the index values counting up from start + 1
RECURSIVE Runs(_, _, _)
Runs(order, lengths, start) ==
    IF order = <<>> THEN <<>>
    ELSE [j \in 1..Head(lengths) |-> <<start + j, Head(order)>>]
         \o Runs(Tail(order), Tail(lengths), start + Head(lengths))
PathOrders ==
    UNION { {o \in [1..n -> PathSet] : \A j, k \in 1..n : j # k => o[j] # o[k]} :
            n \in 1..Len(Paths) }
IndexStarts == {0 - 1, 10}

NoBigCall == [fn |-> "none", path |-> "", aggregate_vars |-> {}, dim_values |-> <<>>]

IdleBig ==
    /\ path_series = <<>> /\ layout = [dims |-> <<>>, time_variable |-> FALSE]
    /\ big_call = NoBigCall /\ big_result = NoBigResult
    /\ big_opened = <<>> /\ big_reads = <<>>

----------------------------------------------------------------------------
(* datasets: open_erai_var                                                 *)
(*                                                                         *)
(* A month is the number of a month of the year 2000; the date given for   *)
(* it is its first day.  A time is counted in steps of six hours from the  *)
(* start of the month.                                                     *)

DaysInMonth == <<31, 29, 31, 30, 31>>
MonthInputs == 1..4
StepsPerDay == 4

\* pandas.date_range(date, date + MonthBegin(), freq='6H', closed='left'): its size
MonthSteps(month) == StepsPerDay * DaysInMonth[month]

\* The path open_erai_file_delayed opens: named by times[0] and times[-1]
\* as year, month and day; times[-1] is the last step before the next month
EraiPath(month) ==
    [monstart |-> <<2000, month, 1>>,
     monend |-> <<2000, month, ((MonthSteps(month) - 1) \div StepsPerDay) + 1>>]

\* (a slip: the file is opened at once, mold or no mold)
OpenedNowAlways(month, has_mold) == <<EraiPath(month)>>

\* open_erai_file(date, domain, variable, mold): the files it opens before it
\* returns.  Without a mold it computes the delayed open; with one it wraps
\* the delayed open in a dask array.
OpenedNow(month, has_mold) == IF has_mold THEN <<>> ELSE <<EraiPath(month)>>

\* The size of the time coordinate: date_range(months[0], months[-1] + MonthBegin())
RangeSteps(first, last) ==
    IF last < first THEN 0
    ELSE SumSeq([k \in 1..(last - first + 1) |-> MonthSteps(first + k - 1)])

NoEraiVar == [status |-> "none", parts |-> <<>>, time_size |-> 0]

\* open_erai_var(months, domain, variable): the variable returned, its data
\* one delayed part per month, and the files opened on the way.  The
\* DataArray cannot be built if the time coordinate and the data differ in size.
open_erai_var(ms) ==
    LET parts == [k \in 1..Len(ms) |-> [path |-> EraiPath(ms[k]), n |-> MonthSteps(ms[k])]]
        data_size == SumSeq([k \in 1..Len(ms) |-> parts[k].n])
        time_size == RangeSteps(ms[1], ms[Len(ms)])
        opened == OpenedNow(ms[1], FALSE)
                  \o Flatten([k \in 1..Len(ms) |-> OpenedNow(ms[k], TRUE)])
    IN  [var |-> IF data_size = time_size
                 THEN [status |-> "ok", parts |-> parts, time_size |-> time_size]
                 ELSE [status |-> "ValueError", parts |-> <<>>, time_size |-> 0],
         opened |-> opened]

IdleErai ==
    /\ months = <<>> /\ erai_var = NoEraiVar /\ erai_opened = <<>>
    /\ erai_computed = FALSE

----------------------------------------------------------------------------
(* create_um_surface_ancillary                                             *)
(*                                                                         *)
(* Latitudes and longitudes are integers in units of half a degree, and    *)
(* the coordinates given are whole degrees, so every half spacing the code *)
(* takes is exact.  Times are whole seconds.                               *)

SecondsPerHour == 3600
SecondsPerMinute == 60

\* The headers of a UM file are arrays of integers: storing the quotient
\* num / den keeps its whole part
StoreInt(num, den) == num \div den

\* (a slip: the minutes of the whole time step, not of what is left of the hour)
MinutesOfStep(tstep) == StoreInt(tstep, SecondsPerMinute)

\* 't3_minute': tstep % 3600 / 60
MinutesOfHour(tstep) == StoreInt(tstep % SecondsPerHour, SecondsPerMinute)

NoAncil(status) ==
    [ status |-> status,
      t3_hour |-> 0, t3_minute |-> 0, t3_second |-> 0,
      num_times |-> 0, num_cols |-> 0, num_rows |-> 0, num_field_types |-> 0,
      start_lat |-> 0, row_spacing |-> 0, start_lon |-> 0, col_spacing |-> 0,
      fields |-> <<>> ]

\* create_um_surface_ancillary(input_ds, output_filename, stash_map): time[1],
\* lat.values[1] and lon.values[1] raise IndexError on an axis of a single point.
create_um_surface_ancillary(ds, stash) ==
    IF ds.ntime < 2 \/ ds.nlat < 2 \/ ds.nlon < 2 THEN NoAncil("IndexError")
    ELSE
    LET tstep == ds.time[2] - ds.time[1]
        row_spacing == ds.lat[1] - ds.lat[0]
        col_spacing == ds.lon[1] - ds.lon[0]
        start_lat == ds.lat[0] + Half(row_spacing)
        start_lon == ds.lon[0] + Half(col_spacing)
        num_rows == ds.nlat
        num_cols == ds.nlon
        \* the field of variable v at time t
        Field3(v, t) ==
            [ lbuser4 |-> stash[v], time |-> ds.time[t],
              lbrow |-> num_rows, lbnpt |-> num_cols,
              bdx |-> col_spacing, bdy |-> row_spacing,
              bzx |-> start_lon - Half(col_spacing),
              bzy |-> start_lat - Half(row_spacing) ]
    IN  [ status |-> "ok",
          t3_hour |-> StoreInt(tstep, SecondsPerHour),
          t3_minute |-> MinutesOfHour(tstep),
          t3_second |-> tstep % SecondsPerMinute,
          num_times |-> ds.ntime, num_cols |-> num_cols, num_rows |-> num_rows,
          num_field_types |-> Len(stash),
          start_lat |-> start_lat, row_spacing |-> row_spacing,
          start_lon |-> start_lon, col_spacing |-> col_spacing,
          \* for var, stash in stash_map.items(): for t in var_data.initial_time0_hours
          fields |-> [k \in 1..(Len(stash) * ds.ntime) |->
                        Field3(((k - 1) \div ds.ntime) + 1, ((k - 1) % ds.ntime) + 1)] ]

\* The datasets of the model: a regular grid of whole degrees, and times a
\* fixed step apart, the step below a day
TimeSteps == {1, 60, 3600, 5400, 5430, 21600, 86399}
AncilFirstLat == {0 - 180, 0, 2}
AncilFirstLon == {0, 2}
AncilSpacings == {2, 4}
StashMaps == {<<507>>, <<31, 507>>}

NoInputDs == [ntime |-> 0, time |-> <<>>, nlat |-> 0, lat |-> <<>>, nlon |-> 0, lon |-> <<>>]

IdleAncil == input_ds = NoInputDs /\ stash_map = <<>> /\ ancil = NoAncil("none")

----------------------------------------------------------------------------
(* latlon_to_scrip (coecms/regrid/regrid.py) and LonLatGrid.to_scrip       *)
(* (coecms/grid.py)                                                        *)
(*                                                                         *)
(* Angles are integers in units of 7.5 degrees, as for latlon_scrip_grid;  *)
(* the coordinates given are multiples of 30 degrees, so every halving the *)
(* code does is exact.                                                     *)

FullCircle == 48    \* 360 degrees

\* x % 360: Python's remainder has the sign of the divisor, as TLA+'s has
Mod360(x) == x % FullCircle

\* lon.roll(lon=k).values: the value at j comes from j - k, around the axis
Roll(a, n, k) == [j \in 0..(n - 1) |-> a[(j - k) % n]]

\* top = (lat.shift(lat=-1) + lat) / 2.0; top[-1] = 90
ScripTop(lat, n) ==
    [i \in 0..(n - 1) |-> IF i = n - 1 THEN Pole ELSE Half(lat[i + 1] + lat[i])]

\* bot = (lat.shift(lat=1) + lat) / 2.0; bot[0] = -90
ScripBot(lat, n) ==
    [i \in 0..(n - 1) |-> IF i = 0 THEN 0 - Pole ELSE Half(lat[i - 1] + lat[i])]

\* left = ((lon - (lon - lon.roll(lon=1).values) % 360) / 2.0) % 360: the
\* division takes the whole difference lon - (...) % 360
ScripLeft(lon, n) ==
    [j \in 0..(n - 1) |-> Mod360(Half(lon[j] - Mod360(lon[j] - Roll(lon, n, 1)[j])))]

\* right = (lon + ((lon.roll(lon=-1).values - lon) % 360) / 2.0) % 360
ScripRight(lon, n) ==
    [j \in 0..(n - 1) |-> Mod360(lon[j] + Half(Mod360(Roll(lon, n, 0 - 1)[j] - lon[j])))]

\* numpy.meshgrid(x, y)[0].reshape(-1) and numpy.meshgrid(x, y)[1].reshape(-1):
\* the flat position p is row p div nx, column p mod nx
MeshX(x, ny, nx) == [p \in 0..(ny * nx - 1) |-> x[p % nx]]
MeshY(y, ny, nx) == [p \in 0..(ny * nx - 1) |-> y[p \div nx]]

NoLonLatScrip ==
    [ status |-> "none", grid_dims |-> <<>>,
      grid_center_lat |-> <<>>, grid_center_lon |-> <<>>, grid_imask |-> <<>>,
      grid_corner_lat |-> <<>>, grid_corner_lon |-> <<>> ]

\* The dataset both functions build.  Corner k of the code (0 to 3) is the
\* element k + 1 of a cell's corners here.
ScripDataset(lat, ny, lon, nx) ==
    LET top == ScripTop(lat, ny)
        bot == ScripBot(lat, ny)
        left == ScripLeft(lon, nx)
        right == ScripRight(lon, nx)
        corner_lat == << MeshY(top, ny, nx), MeshY(bot, ny, nx),
                         MeshY(bot, ny, nx), MeshY(top, ny, nx) >>
        corner_lon == << MeshX(left, ny, nx), MeshX(left, ny, nx),
                         MeshX(right, ny, nx), MeshX(right, ny, nx) >>
    IN  [ status |-> "ok",
          grid_dims |-> <<nx, ny>>,
          grid_center_lat |-> MeshY(lat, ny, nx),
          grid_center_lon |-> MeshX(lon, ny, nx),
          grid_imask |-> [p \in 0..(ny * nx - 1) |-> 1],
          \* corner_lat.T, corner_lon.T
          grid_corner_lat |-> [p \in 0..(ny * nx - 1) |-> [c \in 1..4 |-> corner_lat[c][p]]],
          grid_corner_lon |-> [p \in 0..(ny * nx - 1) |-> [c \in 1..4 |-> corner_lon[c][p]]] ]

\* latlon_to_scrip(lat, lon)
latlon_to_scrip(lat, ny, lon, nx) ==
    ScripDataset(lat, ny, [j \in 0..(nx - 1) |-> Mod360(lon[j])], nx)

\* LonLatGrid(lats, lons).to_scrip(outfile): the dataset written to outfile
to_scrip(self) ==
    ScripDataset(self.lat, self.nlat, [j \in 0..(self.nlon - 1) |-> Mod360(self.lon[j])],
                 self.nlon)

\* The grids of the model: latitudes and longitudes strictly increasing
ScripLonValues == {0, 4, 12, 24, 36, 44}
NoLonLat == [nlat |-> 0, lat |-> <<>>, nlon |-> 0, lon |-> <<>>]

IdleToScrip ==
    /\ lonlat = NoLonLat
    /\ lonlat_scrip = [latlon_to_scrip |-> NoLonLatScrip, to_scrip |-> NoLonLatScrip]

----------------------------------------------------------------------------
(* rename_weights_esmf_to_scrip                                            *)
(*                                                                         *)
(* A dataset is a function from the names of its variables to their        *)
(* dimensions and data.                                                    *)

\* The argument of ds.rename(...)
RenameMap ==
    [ n_s |-> "num_links", n_a |-> "src_grid_size", n_b |-> "dst_grid_size",
      nv_a |-> "src_grid_corners", nv_b |-> "dst_grid_corners",
      area_a |-> "src_grid_area", area_b |-> "dst_grid_area",
      frac_a |-> "src_grid_frac", frac_b |-> "dst_grid_frac",
      xc_a |-> "src_grid_center_lat", xc_b |-> "dst_grid_center_lat",
      yc_a |-> "src_grid_center_lon", yc_b |-> "dst_grid_center_lon",
      xv_a |-> "src_grid_corner_lat", xv_b |-> "dst_grid_corner_lat",
      yv_a |-> "src_grid_corner_lon", yv_b |-> "dst_grid_corner_lon",
      col |-> "src_address", row |-> "dst_address", S |-> "remap_matrix" ]

NewName(n) == IF n \in DOMAIN RenameMap THEN RenameMap[n] ELSE n

\* Dataset.rename: variables and dimensions take their new names, the data stays
Rename(ds) ==
    [ new \in {NewName(old) : old \in DOMAIN ds} |->
        LET old == CHOOSE o \in DOMAIN ds : NewName(o) = new
        IN  [ dims |-> [k \in DOMAIN ds[old].dims |-> NewName(ds[old].dims[k])],
              data |-> ds[old].data ] ]

\* da.expand_dims('num_wgts').transpose() of a variable of one dimension: the
\* new dimension comes first, and transpose() reverses the order
ExpandTranspose(da) ==
    [ dims |-> da.dims \o <<"num_wgts">>,
      data |-> [k \in DOMAIN da.data |-> <<da.data[k]>>] ]

NoRenamed == [status |-> "none", conventions |-> "", variables |-> <<>>]

\* rename_weights_esmf_to_scrip(ds)
rename_weights_esmf_to_scrip(ds) ==
    LET named == Rename(ds)
    IN  [ status |-> "ok",
          conventions |-> "SCRIP",
          variables |-> [named EXCEPT !["remap_matrix"] = ExpandTranspose(@)] ]

\* The variables apply_weights reads the destination centres from in
\* ESMF-style weights: dst_grid_center_lat = w.yc_b, dst_grid_center_lon = w.xc_b
ESMFCentre == [lat |-> "yc_b", lon |-> "xc_b"]

\* The weights datasets of the model, as ESMF_RegridWeightGen writes them:
\* each grid a row of n cells from a first centre, four corners to a cell
EsmfFirstLat == {0 - 4, 4}
EsmfFirstLon == {4, 8}
EsmfWeightValues == {1, WeightUnit}

EsmfDataset(na, la_a, lo_a, nb, la_b, lo_b, links) ==
    LET xc(n, lo) == [k \in 1..n |-> lo + 4 * (k - 1)]
        yc(n, la) == [k \in 1..n |-> la]
        xv(n, lo) == [k \in 1..n |-> <<xc(n, lo)[k] - 2, xc(n, lo)[k] + 2,
                                       xc(n, lo)[k] + 2, xc(n, lo)[k] - 2>>]
        yv(n, la) == [k \in 1..n |-> <<la - 2, la - 2, la + 2, la + 2>>]
        ones(n) == [k \in 1..n |-> 1]
    IN  [ xc_a |-> [dims |-> <<"n_a">>, data |-> xc(na, lo_a)],
          yc_a |-> [dims |-> <<"n_a">>, data |-> yc(na, la_a)],
          xv_a |-> [dims |-> <<"n_a", "nv_a">>, data |-> xv(na, lo_a)],
          yv_a |-> [dims |-> <<"n_a", "nv_a">>, data |-> yv(na, la_a)],
          area_a |-> [dims |-> <<"n_a">>, data |-> ones(na)],
          frac_a |-> [dims |-> <<"n_a">>, data |-> ones(na)],
          xc_b |-> [dims |-> <<"n_b">>, data |-> xc(nb, lo_b)],
          yc_b |-> [dims |-> <<"n_b">>, data |-> yc(nb, la_b)],
          xv_b |-> [dims |-> <<"n_b", "nv_b">>, data |-> xv(nb, lo_b)],
          yv_b |-> [dims |-> <<"n_b", "nv_b">>, data |-> yv(nb, la_b)],
          area_b |-> [dims |-> <<"n_b">>, data |-> ones(nb)],
          frac_b |-> [dims |-> <<"n_b">>, data |-> ones(nb)],
          mask_b |-> [dims |-> <<"n_b">>, data |-> ones(nb)],
          col |-> [dims |-> <<"n_s">>, data |-> [k \in 1..Len(links) |-> links[k][1]]],
          row |-> [dims |-> <<"n_s">>, data |-> [k \in 1..Len(links) |-> links[k][2]]],
          S |-> [dims |-> <<"n_s">>, data |-> [k \in 1..Len(links) |-> links[k][3]]] ]

IdleRename == esmf_ds = <<>> /\ renamed = NoRenamed

----------------------------------------------------------------------------
(* vertical_interpolate                                                    *)
(*                                                                         *)
(* eta is counted in units of 1/(the largest eta of the model), heights in *)
(* the same units times z_top_of_model, and the orography coefficient      *)
(* (1 - eta/eta[const_lev])^2 in units of 1/eta[const_lev]^2.  A level of  *)
(* the code (0-based) is the element level + 1 of a sequence here.         *)

\* target_Zsea[level] = z_top_of_model * eta[level]
TargetZsea(nml, level) == nml.z_top_of_model * nml.eta_theta[level + 1]

\* target_C = (1 - eta/eta[const_lev])**2; target_C[const_lev:] = 0, with
\* const_lev = first_constant_r_rho_level - 1
TargetC(nml, level) ==
    LET const_lev == nml.first_constant_r_rho_level - 1
        d == nml.eta_theta[const_lev + 1] - nml.eta_theta[level + 1]
    IN  IF level >= const_lev THEN 0 ELSE d * d

\* The keys of df.groupby([year, month, day, hour, minute, second, stash])
GroupKeys(fields) == { <<fields[k].time, fields[k].lbuser4>> : k \in DOMAIN fields }

KeyBefore(a, b) == a[1] < b[1] \/ (a[1] = b[1] /\ a[2] <= b[2])

\* groupby hands the groups out in the order of their keys
RECURSIVE SortedKeys(_)
SortedKeys(keys) ==
    IF keys = {} THEN <<>>
    ELSE LET first == CHOOSE a \in keys : \A b \in keys : KeyBefore(a, b)
         IN  <<first>> \o SortedKeys(keys \ {first})

\* for level in range(1, new_cube.shape[0]): new_cube has one level for each
\* target level, and the loop starts at the second
OutputLevels(n) == 1..(n - 1)

\* The field the loop body appends for one level of one group
LevelField(nml, key, level) ==
    [ time |-> key[1], lbuser4 |-> key[2],
      lblev |-> level + 1,
      blev |-> TargetZsea(nml, level), brlev |-> MissingData,
      bhlev |-> TargetC(nml, level), bhrlev |-> MissingData,
      data |-> level ]        \* new_cube[level, :, :]

RECURSIVE AppendGroups(_, _, _)
AppendGroups(out, nml, keys) ==
    IF keys = <<>> THEN out
    ELSE LET n == Len(nml.eta_theta)       \* new_cube.shape[0]
             levels == OutputLevels(n)
             first == IF levels = {} THEN 0 ELSE CHOOSE l \in levels : \A m \in levels : l <= m
             new == [k \in 1..Cardinality(levels) |-> LevelField(nml, Head(keys), first + k - 1)]
         IN  AppendGroups(out \o new, nml, Tail(keys))

NoVertIn ==
    [ fields |-> <<>>,
      VERTLEVS |-> [eta_theta |-> <<>>, first_constant_r_rho_level |-> 0,
                    z_top_of_model |-> 0] ]
NoVertOut == [status |-> "none", fields |-> <<>>]

\* vertical_interpolate(infile, outfile, orogfile, vertlevs): the fields of
\* outfile.  ancil.copy() copies the headers of the file and none of its
\* fields, so the output holds what the loop appends.
vertical_interpolate(in) ==
    [ status |-> "ok",
      fields |-> AppendGroups(<<>>, in.VERTLEVS, SortedKeys(GroupKeys(in.fields))) ]

\* The files of the model: each group of the input holds one or two source
\* levels; the target levels start at the surface and rise
VertTimes == {1, 2}
VertStash == {4, 10}
EtaSteps == {1, 2}
ZTop == 10

\* The input fields of a set of groups, levels source levels to a group
InputFields(keys, levels) ==
    LET sorted == SortedKeys(keys)
    IN  [k \in 1..(Len(sorted) * levels) |->
            LET key == sorted[((k - 1) \div levels) + 1]
                lev == ((k - 1) % levels) + 1
            IN  [ time |-> key[1], lbuser4 |-> key[2], lblev |-> lev,
                  blev |-> 5 * lev, brlev |-> MissingData,
                  bhlev |-> 1, bhrlev |-> MissingData, data |-> 100 + lev ]]

IdleVert == vert_in = NoVertIn /\ vert_out = NoVertOut

IdleMore == IdleAncil /\ IdleToScrip /\ IdleRename /\ IdleVert

IdleCtor ==
    /\ rg_args = NoArgs /\ rg_self = NoRegridder
    /\ rg_generated = 0 /\ rg_identified = 0 /\ rg_applied = <<>>
IdleLater == IdleNml /\ IdleDim /\ IdleCtor /\ IdleBig /\ IdleErai /\ IdleMore

IdleRegrid == weights = <<>> /\ source_data = <<>> /\ regridded = <<>>
IdleGrid ==
    /\ grid_in = <<>> /\ scrip = NoScrip("none") /\ scrip_grids = NoGrids("none")
    /\ oasis_grids = NoOasis
IdleLFrac == lfrac = <<>> /\ field = [lbuser4 |-> 0, data |-> <<>>] /\ dest = <<>>
IdleGen ==
    /\ pc = "idle" /\ call = NoCall
    /\ tmp_created = {} /\ tmp_open = {}
    /\ environ = [n \in EnvNames |-> "unset"] /\ environ_at_call = environ
    /\ encoding = [source |-> "unset", target |-> "unset"]
    /\ invocations = 0 /\ proc = NoProc /\ shown = <<>> /\ result = NoResult

InitRegrid ==
    /\ \E nd \in DstSizes : \E mask \in [1..nd -> {0, 1}] :
       \E n \in 0..MaxLinks : \E links \in [1..n -> LinkSet(nd)] :
           weights \in {ESMFWeights(links, mask), CDOWeights(links, mask)}
    /\ source_data \in SourceInputs
    /\ regridded = <<>>
    /\ IdleGrid /\ IdleLFrac /\ IdleGen /\ IdleLater

\* regrid(source_data, weights=weights) -> apply_weights(source_data, weights)
regrid ==
    /\ regridded = <<>>
    /\ regridded' = apply_weights(source_data, weights)
    /\ UNCHANGED <<weights, source_data, gridVars, lfracVars, genVars, laterVars>>

NextRegrid == regrid

SpecRegrid == InitRegrid /\ [][NextRegrid]_vars

InitGrid ==
    /\ \E ny \in 1..MaxLat : \E nx \in 1..MaxLon :
       \E lat \in [0..(ny - 1) -> LatValues] : \E lon \in [0..(nx - 1) -> LonValues] :
          /\ Increasing(lat, ny) \/ Decreasing(lat, ny)
          /\ Increasing(lon, nx)
          /\ \E data \in FracFields(ny, nx) :
                grid_in = [nlat |-> ny, nlon |-> nx, lat |-> lat, lon |-> lon, data |-> data]
    /\ scrip = NoScrip("none")
    /\ scrip_grids = NoGrids("none")
    /\ oasis_grids = NoOasis
    /\ IdleRegrid /\ IdleLFrac /\ IdleGen /\ IdleLater

\* latlon_scrip_grid(grid_in)
CallLatlonScripGrid ==
    /\ scrip.status = "none"
    /\ scrip' = latlon_scrip_grid(grid_in)
    /\ UNCHANGED <<grid_in, scrip_grids, oasis_grids, regridVars, lfracVars, genVars, laterVars>>

\* um_endgame_scrip_grids(grid_in)
CallUmEndgameScripGrids ==
    /\ scrip_grids.um_t.status = "none"
    /\ scrip_grids' = um_endgame_scrip_grids(grid_in)
    /\ UNCHANGED <<grid_in, scrip, oasis_grids, regridVars, lfracVars, genVars, laterVars>>

\* oasis_grids = merge_scrip_for_oasis(scrip_grids), as main() calls it on the
\* dict um_endgame_scrip_grids returned: the result is built from the
\* descriptors, and each descriptor of the dict is changed in place on the way.
CallMergeScripForOasis ==
    /\ scrip_grids.um_t.status = "ok"
    /\ oasis_grids.status = "none"
    /\ oasis_grids' = merge_scrip_for_oasis(scrip_grids)
    /\ scrip_grids' = [name \in DOMAIN scrip_grids |-> MergeInPlace(scrip_grids[name])]
    /\ UNCHANGED <<grid_in, scrip, regridVars, lfracVars, genVars, laterVars>>

NextGrid == CallLatlonScripGrid \/ CallUmEndgameScripGrids \/ CallMergeScripForOasis

SpecGrid == InitGrid /\ [][NextGrid]_vars

InitLFrac ==
    /\ \E n \in 1..MaxCells :
          /\ lfrac \in [1..n -> FracValues]
          /\ \E code \in FieldCodes : \E data \in [1..n -> DataValues] :
                field = [lbuser4 |-> code, data |-> data]
    /\ dest = <<>>
    /\ IdleRegrid /\ IdleGrid /\ IdleGen /\ IdleLater

\* lcorrect(f): the operator's new field takes its data from transform(source, dest);
\* transform builds new arrays and leaves the source's data as it was.
CallTransform ==
    /\ dest = <<>>
    /\ dest' = transform(field, lfrac)
    /\ UNCHANGED <<lfrac, field, regridVars, gridVars, genVars, laterVars>>

NextLFrac == CallTransform

SpecLFrac == InitLFrac /\ [][NextLFrac]_vars

InitGen == IdleGen /\ IdleRegrid /\ IdleGrid /\ IdleLFrac /\ IdleLater

otherVars == <<regridVars, gridVars, lfracVars, laterVars>>

\* A caller calls cdo_generate_weights or esmf_generate_weights
StartCall ==
    /\ pc \in {"idle", "done"}
    /\ \E c \in CallInputs :
          /\ call' = c
          /\ encoding' = [source |-> c.source_encoding, target |-> c.target_encoding]
          /\ pc' = IF c.tool = "cdo" THEN "validate" ELSE "mktemp"
    /\ tmp_created' = {} /\ tmp_open' = {}
    /\ environ_at_call' = environ
    /\ invocations' = 0 /\ proc' = NoProc /\ shown' = <<>> /\ result' = NoResult
    /\ UNCHANGED <<environ, otherVars>>

\* cdo: the checks of method and remap_norm
Validate ==
    /\ pc = "validate"
    /\ IF ValidArgs(call)
       THEN pc' = "mktemp" /\ UNCHANGED result
       ELSE pc' = "done" /\ result' = Raised("Exception")
    /\ UNCHANGED <<call, tmp_created, tmp_open, environ, environ_at_call, encoding,
                   invocations, proc, shown, otherVars>>

\* The three tempfile.NamedTemporaryFile()
MakeTempFiles ==
    /\ pc = "mktemp"
    /\ tmp_created' = TempFiles /\ tmp_open' = TempFiles
    /\ pc' = IF call.tool = "cdo" THEN "write" ELSE "encoding"
    /\ UNCHANGED <<call, environ, environ_at_call, encoding, invocations, proc, shown,
                   result, otherVars>>

\* esmf: a grid without a '_FillValue' encoding is given -999999
SetFillValue ==
    /\ pc = "encoding"
    /\ encoding' = [g \in DOMAIN encoding |->
                       IF encoding[g] = "unset" THEN "-999999" ELSE encoding[g]]
    /\ pc' = "write"
    /\ UNCHANGED <<call, tmp_created, tmp_open, environ, environ_at_call, invocations,
                   proc, shown, result, otherVars>>

\* The two to_netcdf() of the grids.  In cdo_generate_weights they stand before
\* the try statement, so an error leaves the function at once; in
\* esmf_generate_weights they stand inside it.
WriteGrids ==
    /\ pc = "write"
    /\ \E ok \in BOOLEAN :
          IF ok
          THEN pc' = (IF call.tool = "cdo" THEN "env" ELSE "run") /\ UNCHANGED result
          ELSE /\ result' = Raised("IOError")
               /\ pc' = IF call.tool = "cdo" THEN "done" ELSE "finally"
    /\ UNCHANGED <<call, tmp_created, tmp_open, environ, environ_at_call, encoding,
                   invocations, proc, shown, otherVars>>

\* cdo: env = os.environ is the environment itself, and the three settings go into it
SetupEnv ==
    /\ pc = "env"
    /\ environ' = [environ EXCEPT
                      !["REMAP_EXTRAPOLATE"] = IF call.extrapolate THEN "on" ELSE "off",
                      !["CDO_REMAP_NORM"] = call.remap_norm,
                      !["REMAP_AREA_MIN"] = FormatF(call.remap_area_min)]
    /\ pc' = "run"
    /\ UNCHANGED <<call, tmp_created, tmp_open, environ_at_call, encoding, invocations,
                   proc, shown, result, otherVars>>

\* print(e.output.decode()): the output attribute of a CalledProcessError is
\* what the program wrote to its standard output
PrintedOnFailure(p) == p.stdout

\* subprocess.check_output(...), and the except clause when the program fails
RunProgram ==
    /\ pc = "run"
    /\ invocations' = invocations + 1
    /\ \E p \in ProcOutcomes :
          /\ proc' = p
          /\ IF p.status = 0
             THEN /\ pc' = "open"
                  /\ shown' = IF call.tool = "esmf"
                              THEN Append(shown, [stream |-> "stdout", text |-> p.stdout])
                              ELSE shown
                  /\ UNCHANGED result
             ELSE /\ pc' = "finally"
                  /\ shown' = Append(shown,
                        [stream |-> IF call.tool = "cdo" THEN "stderr" ELSE "stdout",
                         text |-> PrintedOnFailure(p)])
                  /\ result' = Raised("CalledProcessError")
    /\ UNCHANGED <<call, tmp_created, tmp_open, environ, environ_at_call, encoding,
                   otherVars>>

\* xarray.open_dataset(weight_file.name) (and .load() for ESMF)
OpenWeights ==
    /\ pc = "open"
    /\ \E ok \in BOOLEAN :
          result' = IF ok THEN [kind |-> "returned", exc |-> ""] ELSE Raised("IOError")
    /\ pc' = "finally"
    /\ UNCHANGED <<call, tmp_created, tmp_open, environ, environ_at_call, encoding,
                   invocations, proc, shown, otherVars>>

\* The finally clause: the three files are closed, which removes them
Finally ==
    /\ pc = "finally"
    /\ tmp_open' = {}
    /\ pc' = "done"
    /\ UNCHANGED <<call, tmp_created, environ, environ_at_call, encoding, invocations,
                   proc, shown, result, otherVars>>

NextGen ==
    \/ StartCall \/ Validate \/ MakeTempFiles \/ SetFillValue \/ WriteGrids
    \/ SetupEnv \/ RunProgram \/ OpenWeights \/ Finally

SpecGen == InitGen /\ [][NextGen]_vars

InitNml ==
    /\ nml_a \in Namelists /\ nml_b \in Namelists
    /\ nml_diff = NoDiff
    /\ IdleRegrid /\ IdleGrid /\ IdleLFrac /\ IdleGen /\ IdleDim /\ IdleCtor /\ IdleBig
    /\ IdleErai /\ IdleMore

\* d = diffnml(a, b)
CallDiffnml ==
    /\ ~nml_diff.called
    /\ nml_diff' = diffnml(nml_a, nml_b)
    /\ UNCHANGED <<nml_a, nml_b, regridVars, gridVars, lfracVars, genVars, dimVars, ctorVars,
                   bigVars, eraiVars, moreVars>>

NextNml == CallDiffnml

SpecNml == InitNml /\ [][NextNml]_vars

InitDim ==
    /\ \E n \in 1..MaxAxis :
          \/ \E values \in [1..n -> CoordValues] : coord = Array1D(n, values)
          \/ \E ni \in 1..2 : \E values \in [1..(ni * n) -> CoordValues] :
                 coord = Array2D(ni, n, values)
    /\ coord_out = NoCoordOut
    /\ IdleRegrid /\ IdleGrid /\ IdleLFrac /\ IdleGen /\ IdleNml /\ IdleCtor /\ IdleBig
    /\ IdleErai /\ IdleMore

\* o = remove_degenerate_axes(coord)
CallRemoveDegenerateAxes ==
    /\ ~coord_out.called
    /\ coord_out' = [called |-> TRUE, array |-> remove_degenerate_axes(coord)]
    /\ UNCHANGED <<coord, regridVars, gridVars, lfracVars, genVars, nmlVars, ctorVars, bigVars,
                   eraiVars, moreVars>>

NextDim == CallRemoveDegenerateAxes

SpecDim == InitDim /\ [][NextDim]_vars

InitCtor ==
    /\ rg_args \in [source_grid : GridArgs, target_grid : GridArgs, weights : WeightsArgs]
    /\ rg_self = NoRegridder
    /\ rg_generated = 0 /\ rg_identified = 0 /\ rg_applied = <<>>
    /\ IdleRegrid /\ IdleGrid /\ IdleLFrac /\ IdleGen /\ IdleNml /\ IdleDim /\ IdleBig
    /\ IdleErai /\ IdleMore

ctorOthers == <<regridVars, gridVars, lfracVars, genVars, nmlVars, dimVars, bigVars, eraiVars,
                moreVars>>

\* Regridder.__init__(source_grid, target_grid, weights).  cdo_generate_weights
\* returns the weights or raises; what it raises leaves __init__.
Construct ==
    /\ rg_self.state = "none"
    /\ IF NothingToUse(rg_args)
       THEN /\ rg_self' = [state |-> "raised", exc |-> "Exception", weights |-> "None"]
            /\ UNCHANGED <<rg_generated, rg_identified>>
       ELSE IF ~Generates(rg_args)
       THEN /\ rg_self' = [state |-> "constructed", exc |-> "", weights |-> rg_args.weights]
            /\ UNCHANGED <<rg_generated, rg_identified>>
       ELSE IF ~Identifiable(rg_args.source_grid)
       THEN /\ rg_self' = [state |-> "raised", exc |-> "NotImplementedError",
                            weights |-> "None"]
            /\ rg_identified' = rg_identified + 1
            /\ UNCHANGED rg_generated
       ELSE IF ~Identifiable(rg_args.target_grid)
       THEN /\ rg_self' = [state |-> "raised", exc |-> "NotImplementedError",
                            weights |-> "None"]
            /\ rg_identified' = rg_identified + 2
            /\ UNCHANGED rg_generated
       ELSE /\ rg_identified' = rg_identified + 2
            /\ rg_generated' = rg_generated + 1
            /\ \E ok \in BOOLEAN :
                  rg_self' = IF ok
                             THEN [state |-> "constructed", exc |-> "",
                                   weights |-> "cdo weights"]
                             ELSE [state |-> "raised", exc |-> "CalledProcessError",
                                   weights |-> "None"]
    /\ UNCHANGED <<rg_args, rg_applied, ctorOthers>>

\* Regridder.regrid(source_data): apply_weights(source_data, self.weights),
\* for a Dataset once per variable through source_data.apply(self.regrid)
CallRegridderRegrid ==
    /\ rg_self.state = "constructed"
    /\ \E kind \in SourceKinds :
          /\ Len(rg_applied) + VariablesOf(kind) <= MaxApplied
          /\ rg_applied' = rg_applied \o [n \in 1..VariablesOf(kind) |-> rg_self.weights]
    /\ UNCHANGED <<rg_args, rg_self, rg_generated, rg_identified, ctorOthers>>

NextCtor == Construct \/ CallRegridderRegrid

SpecCtor == InitCtor /\ [][NextCtor]_vars

InitBig ==
    /\ \E order \in PathOrders : \E lengths \in [1..Len(order) -> 1..MaxRun] :
       \E start \in IndexStarts :
          path_series = Runs(order, lengths, start)
    /\ layout \in Layouts
    /\ big_call = NoBigCall /\ big_result = NoBigResult
    /\ big_opened = <<>> /\ big_reads = <<>>
    /\ IdleRegrid /\ IdleGrid /\ IdleLFrac /\ IdleGen /\ IdleNml /\ IdleDim /\ IdleCtor
    /\ IdleErai /\ IdleMore

bigOthers == <<regridVars, gridVars, lfracVars, genVars, nmlVars, dimVars, ctorVars, eraiVars,
               moreVars>>

\* ds = virtual_dataset(path, aggregate_vars, mold_ds, 'time', dim_values), the
\* mold being the first file of the series
CallVirtualDataset ==
    /\ big_call.fn = "none"
    /\ LET mold_ds == FileVariables(layout,
                          Len(GroupDates(path_series, path_series[1][2])))
       IN  \E path \in PathSet : \E aggregate_vars \in SUBSET DOMAIN mold_ds :
           \E n \in 0..MaxRun :
              LET dim_values == [k \in 1..n |-> 100 + k]
                  r == virtual_dataset(path, aggregate_vars, mold_ds, "time", dim_values)
              IN  /\ big_call' = [fn |-> "virtual_dataset", path |-> path,
                                  aggregate_vars |-> aggregate_vars,
                                  dim_values |-> dim_values]
                  /\ big_result' = r
                  /\ big_opened' = big_opened \o r.opened
    /\ UNCHANGED <<path_series, layout, big_reads, bigOthers>>

\* ds = unsafe_mfdataset(path_series)
CallUnsafeMfdataset ==
    /\ big_call.fn = "none"
    /\ LET r == unsafe_mfdataset(path_series, "time", layout)
       IN  /\ big_call' = [NoBigCall EXCEPT !.fn = "unsafe_mfdataset"]
           /\ big_result' = r
           /\ big_opened' = big_opened \o r.opened
    /\ UNCHANGED <<path_series, layout, big_reads, bigOthers>>

\* A variable of the result is read: numpy.asarray(ds[v]) / ds[v].compute()
ComputeVariable ==
    /\ big_result.status = "ok"
    /\ big_reads = <<>>
    /\ \E v \in DOMAIN big_result.data :
          /\ big_reads' = <<v>>
          /\ big_opened' = big_opened \o ComputeOpens(big_result.data[v])
    /\ UNCHANGED <<path_series, layout, big_call, big_result, bigOthers>>

NextBig == CallVirtualDataset \/ CallUnsafeMfdataset \/ ComputeVariable

SpecBig == InitBig /\ [][NextBig]_vars

InitErai ==
    /\ \E n \in 1..MaxMonths : months \in [1..n -> MonthInputs]
    /\ erai_var = NoEraiVar /\ erai_opened = <<>> /\ erai_computed = FALSE
    /\ IdleRegrid /\ IdleGrid /\ IdleLFrac /\ IdleGen /\ IdleNml /\ IdleDim /\ IdleCtor
    /\ IdleBig /\ IdleMore

eraiOthers == <<regridVars, gridVars, lfracVars, genVars, nmlVars, dimVars, ctorVars,
                bigVars, moreVars>>

\* da = open_erai_var(months, domain, variable)
CallOpenEraiVar ==
    /\ erai_var.status = "none"
    /\ erai_var' = open_erai_var(months).var
    /\ erai_opened' = erai_opened \o open_erai_var(months).opened
    /\ UNCHANGED <<months, erai_computed, eraiOthers>>

\* The data of the variable is computed: each part runs its delayed open
ComputeEraiVar ==
    /\ erai_var.status = "ok"
    /\ ~erai_computed
    /\ erai_computed' = TRUE
    /\ erai_opened' = erai_opened \o [k \in 1..Len(erai_var.parts) |-> erai_var.parts[k].path]
    /\ UNCHANGED <<months, erai_var, eraiOthers>>

NextErai == CallOpenEraiVar \/ ComputeEraiVar

SpecErai == InitErai /\ [][NextErai]_vars

InitAncil ==
    /\ \E nt \in 1..MaxTimes : \E tstep \in TimeSteps :
       \E ny \in 1..MaxLat : \E la0 \in AncilFirstLat : \E dlat \in AncilSpacings :
       \E nx \in 1..MaxLon : \E lo0 \in AncilFirstLon : \E dlon \in AncilSpacings :
          input_ds = [ ntime |-> nt, time |-> [k \in 1..nt |-> (k - 1) * tstep],
                       nlat |-> ny, lat |-> [i \in 0..(ny - 1) |-> la0 + i * dlat],
                       nlon |-> nx, lon |-> [j \in 0..(nx - 1) |-> lo0 + j * dlon] ]
    /\ stash_map \in StashMaps
    /\ ancil = NoAncil("none")
    /\ IdleRegrid /\ IdleGrid /\ IdleLFrac /\ IdleGen
    /\ IdleNml /\ IdleDim /\ IdleCtor /\ IdleBig /\ IdleErai
    /\ IdleToScrip /\ IdleRename /\ IdleVert

\* ancil = create_um_surface_ancillary(input_ds, output_filename, stash_map)
CallCreateUmSurfaceAncillary ==
    /\ ancil.status = "none"
    /\ ancil' = create_um_surface_ancillary(input_ds, stash_map)
    /\ UNCHANGED <<input_ds, stash_map, regridVars, gridVars, lfracVars, genVars,
                   nmlVars, dimVars, ctorVars, bigVars, eraiVars, toScripVars,
                   renameVars, vertVars>>

NextAncil == CallCreateUmSurfaceAncillary

SpecAncil == InitAncil /\ [][NextAncil]_vars

InitToScrip ==
    /\ \E ny \in 1..MaxLat : \E nx \in 1..MaxColumns :
       \E lat \in [0..(ny - 1) -> LatValues] : \E lon \in [0..(nx - 1) -> ScripLonValues] :
          /\ Increasing(lat, ny) /\ Increasing(lon, nx)
          /\ lonlat = [nlat |-> ny, lat |-> lat, nlon |-> nx, lon |-> lon]
    /\ lonlat_scrip = [latlon_to_scrip |-> NoLonLatScrip, to_scrip |-> NoLonLatScrip]
    /\ IdleRegrid /\ IdleGrid /\ IdleLFrac /\ IdleGen
    /\ IdleNml /\ IdleDim /\ IdleCtor /\ IdleBig /\ IdleErai
    /\ IdleAncil /\ IdleRename /\ IdleVert

toScripOthers == <<lonlat, regridVars, gridVars, lfracVars, genVars,
                   nmlVars, dimVars, ctorVars, bigVars, eraiVars, ancilVars, renameVars,
                   vertVars>>

\* s = latlon_to_scrip(d.lat, d.lon)
CallLatlonToScrip ==
    /\ lonlat_scrip.latlon_to_scrip.status = "none"
    /\ lonlat_scrip' = [lonlat_scrip EXCEPT !.latlon_to_scrip =
                           latlon_to_scrip(lonlat.lat, lonlat.nlat, lonlat.lon, lonlat.nlon)]
    /\ UNCHANGED toScripOthers

\* LonLatGrid(lats=d.lat, lons=d.lon).to_scrip(outfile)
CallToScrip ==
    /\ lonlat_scrip.to_scrip.status = "none"
    /\ lonlat_scrip' = [lonlat_scrip EXCEPT !.to_scrip = to_scrip(lonlat)]
    /\ UNCHANGED toScripOthers

NextToScrip == CallLatlonToScrip \/ CallToScrip

SpecToScrip == InitToScrip /\ [][NextToScrip]_vars

InitRename ==
    /\ \E na \in 1..2 : \E la_a \in EsmfFirstLat : \E lo_a \in EsmfFirstLon :
       \E nb \in 1..2 : \E la_b \in EsmfFirstLat : \E lo_b \in EsmfFirstLon :
       \E n \in 0..MaxLinks :
       \E links \in [1..n -> (1..na) \X (1..nb) \X EsmfWeightValues] :
          esmf_ds = EsmfDataset(na, la_a, lo_a, nb, la_b, lo_b, links)
    /\ renamed = NoRenamed
    /\ IdleRegrid /\ IdleGrid /\ IdleLFrac /\ IdleGen
    /\ IdleNml /\ IdleDim /\ IdleCtor /\ IdleBig /\ IdleErai
    /\ IdleAncil /\ IdleToScrip /\ IdleVert

\* rename_weights_esmf_to_scrip(weights)
CallRenameWeightsEsmfToScrip ==
    /\ renamed.status = "none"
    /\ renamed' = rename_weights_esmf_to_scrip(esmf_ds)
    /\ UNCHANGED <<esmf_ds, regridVars, gridVars, lfracVars, genVars,
                   nmlVars, dimVars, ctorVars, bigVars, eraiVars, ancilVars, toScripVars,
                   vertVars>>

NextRename == CallRenameWeightsEsmfToScrip

SpecRename == InitRename /\ [][NextRename]_vars

InitVert ==
    /\ \E keys \in (SUBSET (VertTimes \X VertStash)) \ {{}} : \E levels \in 1..2 :
       \E n \in 1..MaxLevels : \E steps \in [1..(n - 1) -> EtaSteps] :
       \E c \in 1..n :
          vert_in = [ fields |-> InputFields(keys, levels),
                      VERTLEVS |->
                        [ eta_theta |-> [k \in 1..n |-> SumSeq([j \in 1..(k - 1) |-> steps[j]])],
                          first_constant_r_rho_level |-> c,
                          z_top_of_model |-> ZTop ] ]
    /\ vert_out = NoVertOut
    /\ IdleRegrid /\ IdleGrid /\ IdleLFrac /\ IdleGen
    /\ IdleNml /\ IdleDim /\ IdleCtor /\ IdleBig /\ IdleErai
    /\ IdleAncil /\ IdleToScrip /\ IdleRename

\* vertical_interpolate(infile, outfile, orogfile, vertlevs)
CallVerticalInterpolate ==
    /\ vert_out.status = "none"
    /\ vert_out' = vertical_interpolate(vert_in)
    /\ UNCHANGED <<vert_in, regridVars, gridVars, lfracVars, genVars,
                   nmlVars, dimVars, ctorVars, bigVars, eraiVars, ancilVars, toScripVars,
                   renameVars>>

NextVert == CallVerticalInterpolate

SpecVert == InitVert /\ [][NextVert]_vars

----------------------------------------------------------------------------
(* Properties of apply_weights                                             *)

\* The links as the weights file holds them: <<source address, destination
\* address, weight>>, addresses 1-based; and the file's destination mask.
FileLinks(w) ==
    IF w.title = "ESMF"
    THEN [k \in 1..Len(w.S) |-> <<w.col[k], w.row[k], w.S[k]>>]
    ELSE [k \in 1..Len(w.remap_matrix) |->
            <<w.src_address[k], w.dst_address[k], w.remap_matrix[k][1]>>]
FileDstMask(w) == IF w.title = "ESMF" THEN w.mask_b ELSE w.dst_grid_imask

\* The source value a 1-based source address a stands for at leading index t:
\* the cell of row i and column j with a = i * nlon + j + 1.
SourceAt(t, a) ==
    LET c == CHOOSE c \in SrcLatIdx \X SrcLonIdx : a = c[1] * SrcNLon + c[2] + 1
    IN  source_data[t][c[1]][c[2]]

\* The sum of the weights of the links that arrive at destination cell d (1-based)
WeightInto(d) ==
    LET l == FileLinks(weights)
    IN  SumSeq([k \in 1..Len(l) |-> IF l[k][2] = d THEN l[k][3] ELSE 0])

\* The links arriving at d whose source value is valid at leading index t
ValidLinksInto(t, d) ==
    LET l == FileLinks(weights)
    IN  {k \in 1..Len(l) : l[k][2] = d /\ l[k][3] # 0 /\ IsValid(SourceAt(t, l[k][1]))}

\* The product of the weights with the source, link by link
LinkSum(t, d) ==
    LET l == FileLinks(weights)
    IN  SumSeq([k \in 1..Len(l) |->
                  IF l[k][2] = d THEN l[k][3] * SourceAt(t, l[k][1]).v ELSE 0])

Regridded == regridded # <<>>
DstCells == 1..Len(FileDstMask(weights))
LeadIdx == 1..Len(source_data)
FullCoverage ==
    \A d \in DstCells : FileDstMask(weights)[d] = 1 /\ WeightInto(d) = WeightUnit
AllOnes ==
    \A t \in LeadIdx : \A i \in SrcLatIdx : \A j \in SrcLonIdx :
        source_data[t][i][j] = Num(1)

\* C1: with every destination cell unmasked and its arriving weights summing
\* to 1, a source field of ones regrids to ones in every destination cell,
\* for every leading index.  (A value 1 is WeightUnit in the output's units.)
C1_OnesToOnes ==
    (Regridded /\ FullCoverage /\ AllOnes) =>
        \A t \in LeadIdx : \A d \in DstCells : regridded[t][d - 1] = Num(WeightUnit)

\* C1 witness: two destination cells, a destination fed by a fractional
\* weight, two leading indices, ones in, the call made.
C1_Witness ==
    /\ Regridded /\ FullCoverage /\ AllOnes
    /\ Len(source_data) = 2
    /\ \E k \in 1..Len(FileLinks(weights)) :
          FileLinks(weights)[k][3] \notin {0, WeightUnit}

\* C2 (as claimed): every destination cell that no non-zero weight from a
\* valid source cell reaches is missing in the output, whatever its mask.
C2_ZeroWeightIsMissing ==
    Regridded =>
        \A t \in LeadIdx : \A d \in DstCells :
            ValidLinksInto(t, d) = {} => regridded[t][d - 1] = NaN

\* C3: every shifted address lies inside the matrix shape, and for every
\* leading index and every unmasked destination cell fed by valid source
\* cells only, the output is the sum over the links arriving at the cell of
\* weight times source value, repeated links adding up, in both file styles.
C3_SparseProduct ==
    Regridded =>
        LET v == WeightsView(weights)
            l == FileLinks(weights)
        IN  /\ \A k \in 1..Len(l) :
                  /\ v.src_address[k] = l[k][1] - 1
                  /\ v.dst_address[k] = l[k][2] - 1
                  /\ v.src_address[k] \in 0..(v.w_shape[1] - 1)
                  /\ v.dst_address[k] \in 0..(v.w_shape[2] - 1)
            /\ \A t \in LeadIdx : \A d \in DstCells :
                  ( /\ FileDstMask(weights)[d] = 1
                    /\ \A k \in 1..Len(l) :
                          l[k][2] = d => IsValid(SourceAt(t, l[k][1])) )
                  => regridded[t][d - 1] = Num(LinkSum(t, d))

\* C3 witness: a file that repeats a (source, destination) pair with
\* non-zero weights from the last source cell, applied to fields of distinct values.
C3_Witness ==
    /\ Regridded
    /\ source_data = <<HoleField, RampField>>
    /\ LET l == FileLinks(weights)
       IN  /\ Len(l) = 2
           /\ l[1][1] = l[2][1] /\ l[1][2] = l[2][2]
           /\ l[1][1] = SrcSize
           /\ l[1][3] # 0 /\ l[2][3] # 0
           /\ FileDstMask(weights)[l[1][2]] = 1

----------------------------------------------------------------------------
(* Properties of the grid builders                                         *)

ScripOk == scrip.status = "ok"
GridsOk == scrip_grids.um_t.status = "ok"
GridRows == 0..(grid_in.nlat - 1)
GridCols == 0..(grid_in.nlon - 1)
GridDLat == grid_in.lat[1] - grid_in.lat[0]
GridDLon == grid_in.lon[1] - grid_in.lon[0]
RegularGrid ==
    /\ \A i \in 0..(grid_in.nlat - 2) : grid_in.lat[i + 1] - grid_in.lat[i] = GridDLat
    /\ \A j \in 0..(grid_in.nlon - 2) : grid_in.lon[j + 1] - grid_in.lon[j] = GridDLon

\* C4: the descriptor has nlat * nlon cells and grid_dims = [nlon, nlat]; the
\* cell of row i and column j sits at flat index i * nlon + j with the centre
\* (lat[i], lon[j]) and the corners, area and mask of that cell; and the
\* stacking apply_weights does of a (lat, lon) field puts the cell (i, j) at
\* the same flat index.
C4_CellOrder ==
    ScripOk =>
        LET ny == grid_in.nlat
            nx == grid_in.nlon
            flat == 0..(ny * nx - 1)
        IN  /\ scrip.grid_size = ny * nx
            /\ scrip.grid_dims = <<nx, ny>>
            /\ DOMAIN scrip.grid_center_lat = flat /\ DOMAIN scrip.grid_center_lon = flat
            /\ DOMAIN scrip.grid_corner_lat = flat /\ DOMAIN scrip.grid_corner_lon = flat
            /\ DOMAIN scrip.grid_imask = flat /\ DOMAIN scrip.grid_area = flat
            /\ \A i \in GridRows : \A j \in GridCols :
                  LET q == i * nx + j
                  IN  /\ scrip.grid_center_lat[q] = grid_in.lat[i]
                      /\ scrip.grid_center_lon[q] = grid_in.lon[j]
                      /\ scrip.grid_corner_lat[q] = CornerLat(grid_in.lat[i], GridDLat)
                      /\ scrip.grid_corner_lon[q] = CornerLon(grid_in.lon[j], GridDLat, GridDLon)
                      /\ scrip.grid_area[q] = CellArea(grid_in.lat[i], GridDLat, GridDLon)
                      /\ scrip.grid_imask[q] = (IF grid_in.data[i][j] = 0 THEN 1 ELSE 0)
                      /\ XStack(grid_in.data, ny, nx)[q] = grid_in.data[i][j]

\* C4 witness: a grid of three rows and two columns with land in the single
\* cell (1, 1), described.
C4_Witness ==
    /\ ScripOk
    /\ grid_in.nlat = 3 /\ grid_in.nlon = 2
    /\ grid_in.data[1][1] # 0
    /\ \A i \in GridRows : \A j \in GridCols : <<i, j>> # <<1, 1>> => grid_in.data[i][j] = 0

CornersWithinPoles(ds) ==
    \A q \in DOMAIN ds.grid_corner_lat : \A c \in 1..4 :
        ds.grid_corner_lat[q][c] >= 0 - Pole /\ ds.grid_corner_lat[q][c] <= Pole

\* C5: every corner latitude of every cell of every descriptor produced (by
\* latlon_scrip_grid, and the T, U and V grids of um_endgame_scrip_grids)
\* lies within [-90, 90].
C5_CornerLatBounds ==
    /\ ScripOk => CornersWithinPoles(scrip)
    /\ GridsOk => /\ CornersWithinPoles(scrip_grids.um_t)
                  /\ CornersWithinPoles(scrip_grids.um_u)
                  /\ CornersWithinPoles(scrip_grids.um_v)

\* C5 witness: descriptors of a grid whose first row is centred on a pole and
\* whose last row is within half a spacing of the other pole.
C5_Witness ==
    /\ ScripOk /\ GridsOk
    /\ grid_in.lat[0] = 0 - Pole
    /\ grid_in.lat[grid_in.nlat - 1] + Half(GridDLat) > Pole
    /\ scrip_grids.um_v.status = "ok"

\* C6: on a regularly spaced grid the corners of two cells adjacent in
\* longitude coincide along their shared edge, and so do the corners of two
\* cells adjacent in latitude (latitudes and longitudes both).
C6_SharedCorners ==
    (ScripOk /\ RegularGrid) =>
        LET nx == grid_in.nlon
            cla(i, j) == scrip.grid_corner_lat[i * nx + j]
            clo(i, j) == scrip.grid_corner_lon[i * nx + j]
        IN  /\ \A i \in GridRows : \A j \in 0..(nx - 2) :
                  /\ clo(i, j)[2] = clo(i, j + 1)[1] /\ cla(i, j)[2] = cla(i, j + 1)[1]
                  /\ clo(i, j)[3] = clo(i, j + 1)[4] /\ cla(i, j)[3] = cla(i, j + 1)[4]
            /\ \A i \in 0..(grid_in.nlat - 2) : \A j \in GridCols :
                  /\ clo(i, j)[4] = clo(i + 1, j)[1] /\ cla(i, j)[4] = cla(i + 1, j)[1]
                  /\ clo(i, j)[3] = clo(i + 1, j)[2] /\ cla(i, j)[3] = cla(i + 1, j)[2]

\* C6 witness: a regular grid of three rows whose latitude and longitude
\* spacings differ, described.
C6_Witness ==
    /\ ScripOk /\ RegularGrid
    /\ grid_in.nlat = 3 /\ grid_in.nlon = 2
    /\ GridDLat # GridDLon

\* C13 (as claimed): after merge_scrip_for_oasis every descriptor of the dict
\* it was given is what the grid builder produced: no variable or coordinate
\* removed, added or replaced.
C13_DescriptorsUnchanged ==
    oasis_grids.status = "ok" => scrip_grids = um_endgame_scrip_grids(grid_in)

----------------------------------------------------------------------------
(* Properties of LFracCorrector                                            *)

Transformed == dest # <<>>
FieldCells == DOMAIN field.data

\* C7: on a land-mask field (code 30) each output cell is 1 where the land
\* fraction is > 0 and 0 otherwise, whatever the input data; so a land
\* fraction of 0 everywhere gives 0 everywhere and of 1 everywhere gives 1.
C7_LandMask ==
    (Transformed /\ field.lbuser4 = 30) =>
        /\ DOMAIN dest = FieldCells
        /\ \A c \in FieldCells : dest[c] = (IF lfrac[c] > 0 THEN FracUnit ELSE 0)
        /\ (\A c \in FieldCells : lfrac[c] = 0) => (\A c \in FieldCells : dest[c] = 0)
        /\ (\A c \in FieldCells : lfrac[c] = FracUnit)
              => (\A c \in FieldCells : dest[c] = FracUnit)

\* C7 witness: a land-mask field corrected with a land fraction that is zero
\* in one cell and a proper fraction in another, the output differing from
\* the input data.
C7_Witness ==
    /\ Transformed /\ field.lbuser4 = 30
    /\ \E c \in FieldCells : lfrac[c] = 0
    /\ \E c \in FieldCells : lfrac[c] > 0 /\ lfrac[c] < FracUnit
    /\ dest # field.data

\* C8: on an orography field (code 33) a cell whose input is negative and
\* whose land fraction is > 0 becomes 1; every other cell (input >= 0, or
\* land fraction not > 0) carries its input value unchanged.
C8_Orography ==
    (Transformed /\ field.lbuser4 = 33) =>
        /\ DOMAIN dest = FieldCells
        /\ \A c \in FieldCells :
              /\ (field.data[c] < 0 /\ lfrac[c] > 0) => dest[c] = FracUnit
              /\ (field.data[c] >= 0 \/ ~(lfrac[c] > 0)) => dest[c] = field.data[c]

\* C8 witness: an orography field with a negative value over land and a
\* negative value over sea, corrected.
C8_Witness ==
    /\ Transformed /\ field.lbuser4 = 33
    /\ \E c \in FieldCells : field.data[c] < 0 /\ lfrac[c] > 0
    /\ \E c \in FieldCells : field.data[c] < 0 /\ lfrac[c] = 0

----------------------------------------------------------------------------
(* Properties of the weight generators                                     *)

\* C9: cdo_generate_weights with a method outside bic, bil, con, con2, dis,
\* laf, nn, ycon, or a remap_norm outside fracarea, destarea, raises at once:
\* no temporary file has been created, the environment is as it was when the
\* call began, and the external program has not been started.
C9_RaisesImmediately ==
    ( /\ call.tool = "cdo"
      /\ pc \notin {"idle", "validate"}
      /\ \/ call.method \notin {"bic", "bil", "con", "con2", "dis", "laf", "nn", "ycon"}
         \/ call.remap_norm \notin {"fracarea", "destarea"} )
    => /\ pc = "done"
       /\ result.kind = "raised"
       /\ tmp_created = {} /\ tmp_open = {}
       /\ environ = environ_at_call
       /\ invocations = 0

\* C9 witness: a call with a supported method and an unsupported remap_norm
\* has raised, in a process whose environment an earlier call has set.
C9_Witness ==
    /\ call.tool = "cdo" /\ pc = "done" /\ result.kind = "raised"
    /\ call.method = "bil" /\ call.remap_norm = "dstarea"
    /\ environ["CDO_REMAP_NORM"] # "unset"

\* C10 (as claimed): when the external program exits with a non-zero status
\* the call raises after exactly one invocation of the program, returns no
\* weights, and what it shows the caller is the text the program wrote to
\* its standard error.
C10_FailureShowsStderr ==
    (pc = "done" /\ proc.status # 0) =>
        /\ result.kind = "raised"
        /\ invocations = 1
        /\ Len(shown) = 1
        /\ shown[1].text = proc.stderr

\* C11 (as claimed): when a call to cdo_generate_weights has returned or
\* raised, os.environ (REMAP_EXTRAPOLATE, CDO_REMAP_NORM and REMAP_AREA_MIN
\* included) is what it was when the call began.
C11_EnvironRestored ==
    (call.tool = "cdo" /\ pc = "done") => environ = environ_at_call

\* C12 (as claimed): when a call to esmf_generate_weights has returned or
\* raised, the '_FillValue' encoding of source_grid and of target_grid is
\* what the caller passed in.
C12_GridsUnchanged ==
    (call.tool = "esmf" /\ pc = "done") =>
        encoding = [source |-> call.source_encoding, target |-> call.target_encoding]

----------------------------------------------------------------------------
(* Properties of diffnml                                                   *)

HasPair(n, g, k) == g \in DOMAIN n /\ k \in DOMAIN n[g]
AllPairs == NmlSections \X {KeyNames[i] : i \in DOMAIN KeyNames}

\* C14 (as claimed): the keys of the mapping returned are exactly the
\* (section, key) pairs on which the namelists differ - held by one only, or
\* held by both with unequal values - each mapped to (value in a, value in
\* b) with None on a side that does not hold the pair.
C14_DiffExact ==
    nml_diff.called =>
        \A q \in AllPairs :
            LET inA == HasPair(nml_a, q[1], q[2])
                inB == HasPair(nml_b, q[1], q[2])
                differ == \/ inA # inB
                          \/ inA /\ inB /\ nml_a[q[1]][q[2]] # nml_b[q[1]][q[2]]
            IN  /\ q \in DOMAIN nml_diff.output <=> differ
                /\ differ => nml_diff.output[q] =
                       << IF inA THEN nml_a[q[1]][q[2]] ELSE "None",
                          IF inB THEN nml_b[q[1]][q[2]] ELSE "None" >>

----------------------------------------------------------------------------
(* Properties of remove_degenerate_axes                                    *)

\* All values along d are equal, at every position of the other axes
AllEqualAlong(c, d) ==
    \A ix \in Indexes(c) : c.data[ix] = c.data[Extend(ix, d, 0)]
Restrict(ix, D) == [e \in D |-> ix[e]]

\* C15 (as claimed): the axes dropped are exactly those along which all
\* values are identical at every position of the other axes; the result
\* holds at each remaining position the value the coordinate had there, and
\* a 1-D coordinate with distinct values comes back as it was.
C15_DropsExactlyDegenerate ==
    coord_out.called =>
        LET out == coord_out.array
            kept == {d \in DimSet(coord) : ~AllEqualAlong(coord, d)}
        IN  /\ DimSet(out) = kept
            /\ \A ix \in Indexes(coord) : out.data[Restrict(ix, kept)] = coord.data[ix]

----------------------------------------------------------------------------
(* Properties of Regridder                                                 *)

\* C16: (a) with weights None and a grid None the constructor raises and no
\* weight generation was attempted; (b) with weights supplied the Regridder
\* is constructed, the generator was never called, and every apply_weights
\* is given exactly those weights, grids given or not; (c) the generator is
\* called only with weights None and both grids given, and once a Regridder
\* is constructed that way it has been called exactly once, however many
\* regrid calls have been made since.
C16_RegridderConstruction ==
    rg_self.state # "none" =>
        /\ ( rg_args.weights = "None"
              /\ (rg_args.source_grid = "None" \/ rg_args.target_grid = "None") )
           => ( rg_self.state = "raised" /\ rg_self.exc = "Exception"
                /\ rg_generated = 0 /\ rg_identified = 0 )
        /\ rg_args.weights # "None"
           => ( /\ rg_self.state = "constructed"
                /\ rg_self.weights = rg_args.weights
                /\ rg_generated = 0
                /\ \A n \in 1..Len(rg_applied) : rg_applied[n] = rg_args.weights )
        /\ rg_generated > 0
           => ( /\ rg_args.weights = "None"
                /\ rg_args.source_grid # "None" /\ rg_args.target_grid # "None" )
        /\ rg_generated <= 1
        /\ (rg_self.state = "constructed" /\ rg_args.weights = "None")
           => rg_generated = 1

\* C16 witness: a Regridder constructed from two grids, without weights, has
\* regridded as many variables as the model follows.
C16_Witness ==
    /\ rg_self.state = "constructed" /\ rg_args.weights = "None"
    /\ Len(rg_applied) = MaxApplied
    /\ rg_generated = 1

----------------------------------------------------------------------------
(* Properties of unsafe_mfdataset and virtual_dataset                      *)

MfBuilt == big_call.fn = "unsafe_mfdataset"
VdReturned == big_call.fn = "virtual_dataset" /\ big_result.status = "ok"
SeriesPaths == {path_series[k][2] : k \in 1..Len(path_series)}

\* The dim coordinate of the dataset returned: the variable named dim if the
\* dataset holds one, else the positions 0, 1, ... that xarray gives a
\* dimension without a coordinate
DimCoordinate ==
    IF "time" \in DOMAIN big_result.data
    THEN LET parts == big_result.data["time"].parts
         IN  Flatten([k \in 1..Len(parts) |-> parts[k].values])
    ELSE LET a == big_result.data["a"]
         IN  [k \in 1..a.shape[DimAxis(a.dims, "time")] |-> k - 1]

\* Where each position along dim of a variable comes from: the file, and
\* the position along dim inside that file
PositionSources(v) ==
    LET parts == big_result.data[v].parts
    IN  Flatten([k \in 1..Len(parts) |->
                    [j \in 1..parts[k].n |-> <<parts[k].path, j>>]])

\* Where the series says the k-th position along dim is held: the file of
\* the k-th entry, at the rank of that entry among the entries of its file
SeriesSource(k) ==
    << path_series[k][2],
       Cardinality({j \in 1..k : path_series[j][2] = path_series[k][2]}) >>

\* C17 (as claimed): the dim coordinate of the dataset unsafe_mfdataset
\* returns is the index of path_series in the series' order, and each
\* aggregated variable has len(path_series) positions along dim, the k-th
\* holding the data of the k-th entry of the series, whatever the lexical
\* order of the paths.
C17_AggregateFollowsSeries ==
    MfBuilt =>
        /\ DimCoordinate = [k \in 1..Len(path_series) |-> path_series[k][1]]
        /\ LET a == big_result.data["a"]
           IN  /\ a.shape[DimAxis(a.dims, "time")] = Len(path_series)
               /\ PositionSources("a") = [k \in 1..Len(path_series) |-> SeriesSource(k)]

\* C18: virtual_dataset has opened no file when it returns, and the file at
\* path is opened when, and only when, one of the lazily loaded arrays it
\* returned is computed; unsafe_mfdataset has opened one file when it
\* returns, the first of its paths, however many paths the series holds.
C18_OpensOnlyOnRead ==
    /\ (big_call.fn = "virtual_dataset" /\ big_reads = <<>>) => big_opened = <<>>
    /\ (VdReturned /\ big_reads # <<>>) =>
           big_opened = (IF big_reads[1] = "time" THEN <<>> ELSE <<big_call.path>>)
    /\ (MfBuilt /\ big_reads = <<>>) =>
           /\ Len(big_opened) = 1
           /\ big_opened[1] \in SeriesPaths
           /\ \A path \in SeriesPaths : PathRank(big_opened[1]) <= PathRank(path)

\* C18 witness: an aggregate of three files was built, and then its
\* variable 'a' computed, which opened each of the three files.
C18_Witness ==
    /\ MfBuilt /\ Cardinality(SeriesPaths) = 3
    /\ big_reads = <<"a">>
    /\ Len(big_opened) = 4

\* C19: the dict virtual_dataset returns has an entry for exactly the
\* variables named in aggregate_vars; the entry for dim is dim_values, held
\* in memory; every other entry has the shape of the mold's variable with
\* the size along dim, wherever dim sits, replaced by the number of dim_values.
C19_EntriesAndShapes ==
    VdReturned =>
        LET mold_ds == FileVariables(layout,
                          Len(GroupDates(path_series, path_series[1][2])))
        IN  /\ DOMAIN big_result.data = big_call.aggregate_vars
            /\ \A v \in big_call.aggregate_vars :
                  LET entry == big_result.data[v]
                  IN  IF v = "time"
                      THEN /\ Len(entry.parts) = 1
                           /\ entry.parts[1].kind = "memory"
                           /\ entry.parts[1].values = big_call.dim_values
                      ELSE /\ Len(entry.shape) = Len(mold_ds[v].shape)
                           /\ \A k \in 1..Len(entry.shape) :
                                 entry.shape[k] =
                                    (IF mold_ds[v].dims[k] = "time"
                                     THEN Len(big_call.dim_values)
                                     ELSE mold_ds[v].shape[k])

\* C19 witness: a call naming 'a' and 'time' but not the mold's 'x', with
\* dim the last axis of 'a' and more dim_values than the mold holds.
C19_Witness ==
    /\ VdReturned
    /\ big_call.aggregate_vars = {"a", "time"}
    /\ layout.dims = <<"x", "time">>
    /\ Len(big_call.dim_values) = MaxRun
    /\ Len(GroupDates(path_series, path_series[1][2])) = 1

----------------------------------------------------------------------------
(* Properties of open_erai_var                                             *)

MonthFile(month) ==
    [monstart |-> <<2000, month, 1>>, monend |-> <<2000, month, DaysInMonth[month]>>]

\* C20: when open_erai_var has ended and nothing was computed,
\* xarray.open_dataset has been called exactly once, for the file of the
\* first month, named by that month's first and last day; when the data of
\* the variable is then computed the file of every month of the list is
\* opened, once each and in order, the first month's among them.
C20_OneOpenWhileBuilding ==
    /\ (erai_var.status # "none" /\ ~erai_computed) =>
           erai_opened = <<MonthFile(months[1])>>
    /\ erai_computed =>
           erai_opened = <<MonthFile(months[1])>>
                            \o [k \in 1..Len(months) |-> MonthFile(months[k])]

\* C20 witness: the variable of the months February to April was built and
\* then computed.
C20_Witness ==
    /\ months = <<2, 3, 4>>
    /\ erai_var.status = "ok"
    /\ erai_computed
    /\ Len(erai_opened) = 4

----------------------------------------------------------------------------
(* Properties of create_um_surface_ancillary                               *)

AncilOk == ancil.status = "ok"
TimeStep == input_ds.time[2] - input_ds.time[1]

\* C21: for a regularly spaced input grid every field's grid header matches
\* the input grid: lbnpt is the number of longitudes, lbrow the number of
\* latitudes, bdx and bdy the longitude and latitude spacing, and the origin
\* is the zeroth point, bzx = first longitude - bdx, bzy = first latitude - bdy.
C21_FieldGridMatchesInput ==
    AncilOk =>
        \A k \in DOMAIN ancil.fields :
            LET f == ancil.fields[k]
            IN  /\ f.lbnpt = input_ds.nlon
                /\ f.lbrow = input_ds.nlat
                /\ f.bdx = input_ds.lon[1] - input_ds.lon[0]
                /\ f.bdy = input_ds.lat[1] - input_ds.lat[0]
                /\ f.bzx = input_ds.lon[0] - f.bdx
                /\ f.bzy = input_ds.lat[0] - f.bdy

----------------------------------------------------------------------------
(* Properties of latlon_to_scrip and LonLatGrid.to_scrip                   *)

\* The cell at row i, column j of a dataset the two functions build
CellAt(i, j) == i * lonlat.nlon + j

\* C22: for ascending latitudes and longitudes, grid_dims = [nlon, nlat], and
\* corner 0 of every cell is its top-left corner: its latitude is midway
\* between the cell's latitude and the next row's (90 for the last row; the
\* bottom edge of the first row is -90), its longitude midway between the
\* cell's longitude and the previous column's, around the circle for the
\* first column, so that the left edge of each cell is the right edge of the
\* cell to its west.
C22_TopLeftCorner ==
    \A fn \in DOMAIN lonlat_scrip :
        LET ds == lonlat_scrip[fn]
            ny == lonlat.nlat
            nx == lonlat.nlon
            lat == lonlat.lat
            lon == lonlat.lon
            west(j) == (j - 1) % nx
        IN  ds.status = "ok" =>
              /\ ds.grid_dims = <<nx, ny>>
              /\ \A i \in 0..(ny - 1) : \A j \in 0..(nx - 1) :
                    LET p == CellAt(i, j)
                    IN  /\ ds.grid_corner_lat[p][1] =
                              IF i = ny - 1 THEN Pole ELSE Half(lat[i] + lat[i + 1])
                        /\ i = 0 => ds.grid_corner_lat[p][2] = 0 - Pole
                        /\ ds.grid_corner_lon[p][1] =
                              Mod360(lon[j] - Half(Mod360(lon[j] - lon[west(j)])))
                        /\ ds.grid_corner_lon[p][1] =
                              ds.grid_corner_lon[CellAt(i, west(j))][4]

----------------------------------------------------------------------------
(* Properties of the ENDGAME grids and of the OASIS masks                  *)

\* The latitude of row i of the V grid before it is held within the poles:
\* half a row spacing below the T row, and for the extra row half a row
\* spacing above the last T row
StaggeredLat(i) ==
    IF i < grid_in.nlat THEN grid_in.lat[i] - (GridDLat \div 2)
    ELSE grid_in.lat[grid_in.nlat - 1] + (GridDLat \div 2)

\* C23: for a T grid of nlat x nlon cells, the U grid has nlat x nlon cells
\* with the T latitudes and each longitude half a column spacing west of the
\* T longitude; the V grid has (nlat + 1) x nlon cells with the T longitudes
\* and the latitudes T latitude - half a row spacing plus one extra row at
\* last T latitude + half a row spacing (each a latitude, between the poles),
\* so that for a global T grid the V rows run from -90 to 90.
C23_EndgameStaggering ==
    GridsOk =>
        LET ny == grid_in.nlat
            nx == grid_in.nlon
            u == scrip_grids.um_u
            v == scrip_grids.um_v
        IN  /\ u.status = "ok" /\ v.status = "ok"
            /\ u.grid_dims = <<nx, ny>> /\ u.grid_size = ny * nx
            /\ \A i \in GridRows : \A j \in GridCols :
                  /\ u.grid_center_lat[i * nx + j] = grid_in.lat[i]
                  /\ u.grid_center_lon[i * nx + j] = grid_in.lon[j] - (GridDLon \div 2)
            /\ v.grid_dims = <<nx, ny + 1>> /\ v.grid_size = (ny + 1) * nx
            /\ \A i \in 0..ny : \A j \in GridCols :
                  /\ v.grid_center_lon[i * nx + j] = grid_in.lon[j]
                  /\ StaggeredLat(i) \in (0 - Pole)..Pole
                        => v.grid_center_lat[i * nx + j] = StaggeredLat(i)
            /\ (StaggeredLat(0) = 0 - Pole /\ StaggeredLat(ny) = Pole)
                  => /\ v.grid_center_lat[0] = 0 - Pole
                     /\ v.grid_center_lat[ny * nx] = Pole

\* C23 witness: a global T grid of three rows at -60, 0 and 60 degrees, whose
\* V rows run from -90 to 90, and whose U columns lie west of the T columns
C23_Witness ==
    /\ GridsOk
    /\ grid_in.nlat = 3 /\ grid_in.nlon = 2
    /\ grid_in.lat[0] = 0 - 8 /\ grid_in.lat[1] = 0 /\ grid_in.lat[2] = 8
    /\ scrip_grids.um_v.grid_center_lat[0] = 0 - Pole
    /\ scrip_grids.um_v.grid_center_lat[2] = 0 - 4
    /\ scrip_grids.um_v.grid_center_lat[6] = Pole
    /\ scrip_grids.um_u.grid_center_lon[0] = grid_in.lon[0] - (GridDLon \div 2)
    /\ scrip_grids.um_u.grid_center_lon[0] < grid_in.lon[0]

OasisOk == oasis_grids.status = "ok"

\* check_mask: um_mask = numpy.where(land fraction < 1, 1, 0)
UmMask(i, j) == IF grid_in.data[i][j] < FracUnit THEN 1 ELSE 0

\* C26: through um_endgame_scrip_grids and merge_scrip_for_oasis, for every
\* T-grid cell the OASIS mask um_t.msk is 1 exactly when the land fraction is
\* not below 1 and 0 when it is below 1, so 1 - oasis_mask - um_mask = 0 in
\* every cell; and the U-grid and V-grid OASIS masks are 0 in every cell.
C26_OasisMaskConsistent ==
    OasisOk =>
        /\ \A i \in GridRows : \A j \in GridCols :
              /\ oasis_grids.masks.um_t[i][j] = 1 <=> ~(grid_in.data[i][j] < FracUnit)
              /\ oasis_grids.masks.um_t[i][j] = 0 <=> grid_in.data[i][j] < FracUnit
              /\ 1 - oasis_grids.masks.um_t[i][j] - UmMask(i, j) = 0
        /\ \A i \in GridRows : \A j \in GridCols : oasis_grids.masks.um_u[i][j] = 0
        /\ \A i \in 0..grid_in.nlat : \A j \in GridCols : oasis_grids.masks.um_v[i][j] = 0

\* C26 witness: a land fraction of 1 in one cell and 0 in the others, merged
C26_Witness ==
    /\ OasisOk
    /\ \E i \in GridRows : \E j \in GridCols :
          grid_in.data[i][j] = FracUnit /\ oasis_grids.masks.um_t[i][j] = 1
    /\ \E i \in GridRows : \E j \in GridCols :
          grid_in.data[i][j] = 0 /\ oasis_grids.masks.um_t[i][j] = 0

----------------------------------------------------------------------------
(* Further properties of LFracCorrector                                    *)

\* C24: after transform, for a field of any code, no output cell whose land
\* fraction is > 0 holds the missing-data sentinel -1073741824, given that
\* the land fraction itself never holds the sentinel.
C24_NoSentinelOverLand ==
    (Transformed /\ \A c \in FieldCells : lfrac[c] # MissingData) =>
        \A c \in FieldCells : lfrac[c] > 0 => dest[c] # MissingData

\* C24 witness: a field that holds the sentinel in a cell with land, corrected
C24_Witness ==
    /\ Transformed
    /\ \A c \in FieldCells : lfrac[c] # MissingData
    /\ \E c \in FieldCells :
          field.data[c] = MissingData /\ lfrac[c] > 0 /\ dest[c] = 0

\* What transform leaves alone, for the field and the output of a state
TransformFrame ==
    /\ field.lbuser4 \notin {LandMaskCode, OrographyCode, LandFracCode} =>
          \A c \in FieldCells :
              dest[c] = IF field.data[c] = MissingData /\ lfrac[c] > 0
                        THEN 0 ELSE field.data[c]
    /\ field.lbuser4 \notin {LandMaskCode, LandFracCode} =>
          \A c \in FieldCells : ~(lfrac[c] > 0) => dest[c] = field.data[c]

\* C25: for a field whose code is none of 30, 33 and 505 the output equals
\* the input in every cell except the cells that hold the sentinel and have
\* land fraction > 0, which become 0; for every code other than 30 and 505
\* each cell with land fraction not > 0 is returned unchanged; and the call
\* does not modify the source field's own data.
C25_TransformFrame ==
    [][Transformed' => (field' = field /\ DOMAIN dest' = DOMAIN field.data /\ TransformFrame')]_vars

\* C25 witness: a field of another code, holding the sentinel over land and
\* over sea, corrected
C25_Witness ==
    /\ Transformed
    /\ field.lbuser4 \notin {LandMaskCode, OrographyCode, LandFracCode}
    /\ \E c \in FieldCells : field.data[c] = MissingData /\ lfrac[c] > 0 /\ dest[c] = 0
    /\ \E c \in FieldCells :
          field.data[c] = MissingData /\ lfrac[c] = 0 /\ dest[c] = MissingData

----------------------------------------------------------------------------
(* Properties of rename_weights_esmf_to_scrip                              *)

\* The SCRIP names and the ESMF variables the claim pairs them with
LatitudeNames ==
    { <<"src_grid_center_lat", "yc_a">>, <<"dst_grid_center_lat", ESMFCentre.lat>>,
      <<"src_grid_corner_lat", "yv_a">>, <<"dst_grid_corner_lat", "yv_b">> }
LongitudeNames ==
    { <<"src_grid_center_lon", "xc_a">>, <<"dst_grid_center_lon", ESMFCentre.lon>>,
      <<"src_grid_corner_lon", "xv_a">>, <<"dst_grid_corner_lon", "xv_b">> }
LinkNames ==
    { <<"src_address", "col">>, <<"dst_address", "row">> }

\* C27: rename_weights_esmf_to_scrip keeps latitude as latitude and longitude
\* as longitude: the variables it names *_grid_center_lat and
\* *_grid_corner_lat are the ESMF variables apply_weights reads as latitudes
\* (yc_*, yv_*), those it names *_grid_center_lon and *_grid_corner_lon are
\* the ESMF longitudes (xc_*, xv_*); src_address, dst_address and remap_matrix
\* carry col, row and S, remap_matrix shaped (num_links, num_wgts = 1).
C27_LatitudeStaysLatitude ==
    renamed.status = "ok" =>
        /\ \A pair \in LatitudeNames \cup LongitudeNames \cup LinkNames :
              /\ pair[1] \in DOMAIN renamed.variables
              /\ renamed.variables[pair[1]].data = esmf_ds[pair[2]].data
        /\ renamed.variables["remap_matrix"].dims = <<"num_links", "num_wgts">>
        /\ DOMAIN renamed.variables["remap_matrix"].data = DOMAIN esmf_ds["S"].data
        /\ \A k \in DOMAIN esmf_ds["S"].data :
              renamed.variables["remap_matrix"].data[k] = <<esmf_ds["S"].data[k]>>

----------------------------------------------------------------------------
(* Properties of vertical_interpolate                                      *)

\* The output fields of one group, in the order they were appended
RECURSIVE FieldsOf(_, _)
FieldsOf(fields, key) ==
    IF fields = <<>> THEN <<>>
    ELSE IF <<Head(fields).time, Head(fields).lbuser4>> = key
         THEN <<Head(fields)>> \o FieldsOf(Tail(fields), key)
         ELSE FieldsOf(Tail(fields), key)

\* C28: for every (date-time, STASH) group of input fields the output holds
\* exactly one field for each target level of the namelist's eta array,
\* appended in increasing level order, with level numbers lblev consecutive
\* from the first target level and blev / bhlev that level's sea-level height
\* and orography coefficient; no target level is left without an output field.
C28_OneFieldPerTargetLevel ==
    vert_out.status = "ok" =>
        \A key \in GroupKeys(vert_in.fields) :
            LET out == FieldsOf(vert_out.fields, key)
                nml == vert_in.VERTLEVS
                n == Len(nml.eta_theta)
            IN  /\ Len(out) = n
                /\ \A k \in 1..n :
                      /\ out[k].blev = nml.z_top_of_model * nml.eta_theta[k]
                      /\ out[k].bhlev = TargetC(nml, k - 1)
                      /\ k > 1 => out[k].lblev = out[k - 1].lblev + 1

----------------------------------------------------------------------------
(* Further properties of the weight generators                             *)

\* C30: the two generators exchange data with the external program through
\* three temporary files only, and none of them outlives the call: on every
\* exit path (normal return, failure while writing a grid, failure of the
\* external program, failure while reading the weights) all three have been
\* closed and removed when control returns to the caller.
C30_TempFilesRemoved ==
    pc = "done" => (tmp_created \subseteq TempFiles /\ tmp_open = {})

=============================================================================
